---------------------------- MODULE Spec2Model ----------------------------
(***************************************************************************)
(* Verification model of the Eva inference-and-routing engine:             *)
(*   - safetyService.assessCrisisRisk (scored crisis assessor)             *)
(*   - routes/conversations.js POST /message (message-handling flow)       *)
(*   - therapeuticConversationService.analyzeCrisisIndicators              *)
(*   - beliefModelingService.localInferTherapeuticPreferences and          *)
(*     inferTherapeuticPreferences over the epistemicMeService belief store*)
(*   - safetyService.getPersonalizedSafetyPlan, getCrisisResponse,         *)
(*     saveAndEscalateCrisis over the crisis_assessments table             *)
(*   - dialecticService.analyzeDialecticResponse                           *)
(*                                                                         *)
(* Text is a sequence of fragments.  A fragment is a run of characters     *)
(* (a word, a word stem, a suffix, or the single blank " "); JavaScript's  *)
(* String.includes is the contiguous-subsequence test on fragments and     *)
(* toLowerCase maps every fragment to its lower-case form.                 *)
(***************************************************************************)
EXTENDS Integers, Sequences, FiniteSets, TLC

VARIABLES
    userId,            \* the user a request or an assessment is for
    message,           \* text of the incoming message
    emotionalState,    \* NoEmotion or [intensity, primary_emotion]
    crisisHistory,     \* outcome of the crisis_assessments query: [failed, count]
    assessment,        \* result of assessCrisisRisk, or NoResult
    pc,                \* position of the POST /message handler
    crisisAnalysis,    \* result of analyzeCrisisIndicators, or NoResult
    openaiUp,          \* whether the generation collaborator answers
    trace,             \* the calls made by the handler, in order
    httpResponse,      \* what the handler sent, or NoResult
    modality,          \* key of the modality configuration selected, or "none"
    generated,         \* text returned by generateModalitySpecificResponse, or "none"
    conversations,     \* history given to localInferTherapeuticPreferences
    profile,           \* result of localInferTherapeuticPreferences, or NoResult
    isAvailable,       \* epistemicMeService.isAvailable
    runs,              \* the calls of inferTherapeuticPreferences so far, with results
    db,                \* tables crisis_assessments and therapeutic_profiles
    safetyPlan,        \* result of getPersonalizedSafetyPlan, or NoResult
    crisisResponse,    \* result of getCrisisResponse, or NoResult
    sessions,          \* per user: the calls a client makes for that user
    dialectic,         \* a dialectic turn: focusArea, answer, analysis
    context,           \* the context the caller supplied with the message
    systemPrompt,      \* instructions built for the generation collaborator
    adapted            \* text after adaptResponseToCommunicationStyle, or "none"

vars == <<userId, message, emotionalState, crisisHistory, assessment, pc,
          crisisAnalysis, openaiUp, trace, httpResponse, modality, generated,
          conversations, profile, isAvailable, runs, db, safetyPlan,
          crisisResponse, sessions, dialectic, context, systemPrompt, adapted>>

crisisVars == <<userId, message, emotionalState, crisisHistory, assessment>>
flowVars == <<pc, crisisAnalysis, openaiUp, trace, httpResponse, modality, generated>>
inferVars == <<conversations, profile>>
serviceVars == <<isAvailable, runs, db, safetyPlan, crisisResponse, sessions, dialectic>>
responseVars == <<context, systemPrompt, adapted>>

NoResult == [none |-> TRUE]
NoEmotion == [absent |-> TRUE]

(***************************************************************************)
(* Bounds of the model.                                                    *)
(***************************************************************************)
MaxPhrases == 3      \* phrases per message
MaxPairPhrases == 2  \* phrases per message where two assessments are compared
MaxRecent == 1       \* largest count the crisis-history lookup returns
MaxHistory == 3      \* messages per conversation history

(***************************************************************************)
(* Text primitives.                                                        *)
(***************************************************************************)
\* Fragments that carry upper-case characters, with their lower-case form.
UpperCaseForms ==
    [f \in {"SUICIDE", "I", "THOUGHT", "Feel", "Natural"} |->
        CASE f = "SUICIDE" -> "suicide"
          [] f = "I" -> "i"
          [] f = "THOUGHT" -> "thought"
          [] f = "Feel" -> "feel"
          [] f = "Natural" -> "natural"]

\* toLowerCase left out: the text is matched as typed.
toLowerCase_NoFolding(text) == text

\* String.prototype.toLowerCase
toLowerCase(text) ==
    [i \in 1..Len(text) |->
        IF text[i] \in DOMAIN UpperCaseForms THEN UpperCaseForms[text[i]] ELSE text[i]]

\* String.prototype.includes: keyword occurs as a contiguous run of text
includes(text, keyword) ==
    \/ keyword = <<>>
    \/ \E i \in 1..(Len(text) - Len(keyword) + 1) :
          \A j \in 1..Len(keyword) : text[i + j - 1] = keyword[j]

\* The words of a message joined by single blanks.
RECURSIVE JoinPhrases(_)
JoinPhrases(ps) ==
    IF ps = <<>> THEN <<>>
    ELSE IF Len(ps) = 1 THEN ps[1]
    ELSE ps[1] \o <<" ">> \o JoinPhrases(Tail(ps))

\* All sequences over S of length at most n.
SeqsUpTo(S, n) == UNION {[1..k -> S] : k \in 0..n}

(***************************************************************************)
(* safetyService.js: keyword tables.                                       *)
(***************************************************************************)
CRISIS_KEYWORDS ==
    [high_risk |-> <<
        <<"suicide">>,
        <<"kill", " ", "myself">>,
        <<"end", " ", "my", " ", "life">>,
        <<"not", " ", "worth", " ", "living">>,
        <<"better", " ", "off", " ", "dead">>,
        <<"want", " ", "to", " ", "die">>,
        <<"no", " ", "reason", " ", "to", " ", "live">> >>,
     moderate_risk |-> <<
        <<"hopeless">>,
        <<"worthless">>,
        <<"cant", " ", "go", " ", "on">>,
        <<"give", " ", "up">>,
        <<"no", " ", "point">>,
        <<"empty">>,
        <<"numb">>,
        <<"cant", " ", "take", " ", "it">> >>,
     self_harm |-> <<
        <<"hurt", " ", "myself">>,
        <<"cutting">>,
        <<"self", " ", "harm">>,
        <<"punish", " ", "myself">> >>]

HighRiskWeight == 10
ModerateRiskWeight == 5
SelfHarmWeight == 7
IntensityWeight == 5
EmotionWeight == 5
HistoryWeight == 5
ExtremeIntensity == 9
CriticalThreshold == 15
HighThreshold == 10
ModerateThreshold == 5

\* The loop with a break after the first keyword found.
RECURSIVE ScanKeywords_StopsAtFirstMatch(_, _, _, _, _)
ScanKeywords_StopsAtFirstMatch(list, messageLower, weight, label, acc) ==
    IF list = <<>> THEN acc
    ELSE IF includes(messageLower, Head(list))
    THEN [riskScore |-> acc.riskScore + weight,
          riskFactors |-> Append(acc.riskFactors, <<label, Head(list)>>)]
    ELSE ScanKeywords_StopsAtFirstMatch(Tail(list), messageLower, weight, label, acc)

\* The loop with "riskScore = weight" in place of "riskScore += weight".
RECURSIVE ScanKeywords_Assigns(_, _, _, _, _)
ScanKeywords_Assigns(list, messageLower, weight, label, acc) ==
    IF list = <<>> THEN acc
    ELSE LET keyword == Head(list)
             next == IF includes(messageLower, keyword)
                     THEN [riskScore |-> weight,
                           riskFactors |-> Append(acc.riskFactors, <<label, keyword>>)]
                     ELSE acc
         IN ScanKeywords_Assigns(Tail(list), messageLower, weight, label, next)

\* One "for (const keyword of list)" loop of assessCrisisRisk: every keyword
\* the text includes adds weight once and pushes one labelled factor.
RECURSIVE ScanKeywords(_, _, _, _, _)
ScanKeywords(list, messageLower, weight, label, acc) ==
    IF list = <<>> THEN acc
    ELSE LET keyword == Head(list)
             next == IF includes(messageLower, keyword)
                     THEN [riskScore |-> acc.riskScore + weight,
                           riskFactors |-> Append(acc.riskFactors, <<label, keyword>>)]
                     ELSE acc
         IN ScanKeywords(Tail(list), messageLower, weight, label, next)

\* "Determine risk level"
LevelOfScore(riskScore) ==
    IF riskScore >= CriticalThreshold THEN "critical"
    ELSE IF riskScore >= HighThreshold THEN "high"
    ELSE IF riskScore >= ModerateThreshold THEN "moderate"
    ELSE "low"

\* "Consider emotional intensity" / "Check for specific emotional states"
ScoreEmotion(es, acc) ==
    LET a1 == IF es # NoEmotion /\ es.intensity >= ExtremeIntensity
              THEN [riskScore |-> acc.riskScore + IntensityWeight,
                    riskFactors |-> Append(acc.riskFactors, <<"extreme_emotional_intensity">>)]
              ELSE acc
    IN IF es # NoEmotion /\ es.primary_emotion \in {"hopelessness", "despair"}
       THEN [riskScore |-> a1.riskScore + EmotionWeight,
             riskFactors |-> Append(a1.riskFactors, <<"high_risk_emotion", es.primary_emotion>>)]
       ELSE a1

\* The history block with the level determined again from the final score.
ApplyCrisisHistory_RecomputesLevel(lookup, riskLevel, acc) ==
    IF ~lookup.failed /\ lookup.count > 0
    THEN [riskLevel |-> LevelOfScore(acc.riskScore + HistoryWeight),
          riskScore |-> acc.riskScore + HistoryWeight,
          riskFactors |-> Append(acc.riskFactors, <<"recent_crisis_history">>)]
    ELSE [riskLevel |-> riskLevel,
          riskScore |-> acc.riskScore,
          riskFactors |-> acc.riskFactors]

\* The history block without the promotion of moderate to high.
ApplyCrisisHistory_NoPromotion(lookup, riskLevel, acc) ==
    IF ~lookup.failed /\ lookup.count > 0
    THEN [riskLevel |-> riskLevel,
          riskScore |-> acc.riskScore + HistoryWeight,
          riskFactors |-> Append(acc.riskFactors, <<"recent_crisis_history">>)]
    ELSE [riskLevel |-> riskLevel,
          riskScore |-> acc.riskScore,
          riskFactors |-> acc.riskFactors]

\* "Check recent crisis history": the level was fixed before this block; a
\* positive count adds to the score and lifts moderate to high, a failed
\* query is caught and changes nothing.
ApplyCrisisHistory(lookup, riskLevel, acc) ==
    IF ~lookup.failed /\ lookup.count > 0
    THEN [riskLevel |-> IF riskLevel = "moderate" THEN "high" ELSE riskLevel,
          riskScore |-> acc.riskScore + HistoryWeight,
          riskFactors |-> Append(acc.riskFactors, <<"recent_crisis_history">>)]
    ELSE [riskLevel |-> riskLevel,
          riskScore |-> acc.riskScore,
          riskFactors |-> acc.riskFactors]

\* assessCrisisRisk(userId, message, emotionalState); lookup is what the
\* query on crisis_assessments yields for userId.
assessCrisisRisk(msg, es, lookup) ==
    LET messageLower == toLowerCase(msg)
        a0 == [riskScore |-> 0, riskFactors |-> <<>>]
        a1 == ScanKeywords(CRISIS_KEYWORDS.high_risk, messageLower,
                           HighRiskWeight, "high_risk_keyword", a0)
        a2 == ScanKeywords(CRISIS_KEYWORDS.moderate_risk, messageLower,
                           ModerateRiskWeight, "moderate_risk_keyword", a1)
        a3 == ScanKeywords(CRISIS_KEYWORDS.self_harm, messageLower,
                           SelfHarmWeight, "self_harm_keyword", a2)
        a4 == ScoreEmotion(es, a3)
        riskLevel == LevelOfScore(a4.riskScore)
    IN ApplyCrisisHistory(lookup, riskLevel, a4)

(***************************************************************************)
(* Inputs of the crisis assessor.                                          *)
(***************************************************************************)
\* Phrases a message is composed of.
CrisisPhrases ==
    { <<"I", " ", "want", " ", "to">>,
      <<"end", " ", "my", " ", "life">>,
      <<"SUICIDE">>,
      <<"hopeless", "ness">>,
      <<"cutting">> }

Messages == {JoinPhrases(ps) : ps \in SeqsUpTo(CrisisPhrases, MaxPhrases)}
ShortMessages == {JoinPhrases(ps) : ps \in SeqsUpTo(CrisisPhrases, MaxPairPhrases)}

Intensities == {8, 9, 10}
Emotions == {"joy", "hopelessness", "despair"}
EmotionalStates ==
    {NoEmotion} \cup [intensity : Intensities, primary_emotion : Emotions]

\* The query either throws or returns the number of high/critical rows of the
\* last 24 hours.
Lookups == [failed : {TRUE}, count : {0}] \cup [failed : {FALSE}, count : 0..MaxRecent]

Users == {"u1", "u2"}

NoUser == "none"

(***************************************************************************)
(* Specification of the crisis assessor: Init draws the inputs, Assess     *)
(* applies assessCrisisRisk to them.                                       *)
(***************************************************************************)
FlowIdle ==
    /\ pc = "idle"
    /\ crisisAnalysis = NoResult
    /\ openaiUp = TRUE
    /\ trace = <<>>
    /\ httpResponse = NoResult
    /\ modality = "none"
    /\ generated = "none"

InferIdle ==
    /\ conversations = <<>>
    /\ profile = NoResult

\* The services the specification at hand does not exercise: the belief
\* store flag as the constructor leaves it, empty tables, nothing returned.
NoTables == [crisis_assessments |-> <<>>, therapeutic_profiles |-> <<>>, up |-> TRUE]
EngineIdle ==
    /\ isAvailable = FALSE
    /\ runs = <<>>
SafetyIdle ==
    /\ db = NoTables
    /\ safetyPlan = NoResult
    /\ crisisResponse = NoResult
    /\ sessions = <<>>
DialecticIdle == dialectic = NoResult

\* context = {} by default, no instructions built, nothing adapted.
EmptyContext == [crisis_indicators |-> FALSE, vulnerability_level |-> "unset"]
ResponseIdle ==
    /\ context = EmptyContext
    /\ systemPrompt = <<>>
    /\ adapted = "none"
ServicesIdle == EngineIdle /\ SafetyIdle /\ DialecticIdle

InitCrisis ==
    /\ userId = "u1"
    /\ message \in Messages
    /\ emotionalState \in EmotionalStates
    /\ crisisHistory \in Lookups
    /\ assessment = NoResult
    /\ FlowIdle
    /\ InferIdle
    /\ ServicesIdle
    /\ ResponseIdle

Assess ==
    /\ assessment = NoResult
    /\ assessment' = assessCrisisRisk(message, emotionalState, crisisHistory)
    /\ UNCHANGED <<userId, message, emotionalState, crisisHistory>>
    /\ UNCHANGED flowVars
    /\ UNCHANGED inferVars
    /\ UNCHANGED serviceVars
    /\ UNCHANGED responseVars

NextCrisis == Assess

SpecCrisis == InitCrisis /\ [][NextCrisis]_vars

\* The same assessor over shorter messages, for the claims that compare the
\* assessment with the assessments of neighbouring inputs.
InitCrisisSmall ==
    /\ userId = "u1"
    /\ message \in ShortMessages
    /\ emotionalState \in EmotionalStates
    /\ crisisHistory \in Lookups
    /\ assessment = NoResult
    /\ FlowIdle
    /\ InferIdle
    /\ ServicesIdle
    /\ ResponseIdle

SpecCrisisSmall == InitCrisisSmall /\ [][NextCrisis]_vars

Assessed == assessment # NoResult

(***************************************************************************)
(* beliefModelingService.js: localInferTherapeuticPreferences.             *)
(***************************************************************************)
\* Object.keys(indicators): the modalities in insertion order.
ModalityOrder == <<"cbt", "humanistic", "mindfulness", "psychodynamic", "existential",
                   "somatic", "solution_focused", "dialectical_behavioral", "narrative",
                   "acceptance_commitment">>

Modalities == {ModalityOrder[i] : i \in 1..Len(ModalityOrder)}

\* "Keywords and patterns for each therapeutic approach"
patterns ==
    [ cbt |-> <<
        <<"thought">>, <<"thinking">>, <<"belief">>, <<"evidence">>,
        <<"rational">>, <<"logical">>, <<"behavior">>, <<"pattern">>,
        <<"homework">>, <<"practice">>, <<"skill">>, <<"technique">>,
        <<"goal">>, <<"objective">>, <<"measure">>, <<"track">>,
        <<"progress">>, <<"solution">> >>,
     humanistic |-> <<
        <<"feel">>, <<"feel", "ing">>, <<"emotion">>, <<"growth">>,
        <<"potential">>, <<"authentic">>, <<"self">>, <<"accept", "ance">>,
        <<"understand", "ing">>, <<"compassion">>, <<"whole">>,
        <<"experience">>, <<"meaning">>, <<"value">>, <<"choice">>,
        <<"freedom">> >>,
     mindfulness |-> <<
        <<"present">>, <<"moment">>, <<"aware">>, <<"aware", "ness">>,
        <<"notice">>, <<"observe">>, <<"accept">>, <<"accept", "ance">>,
        <<"breath">>, <<"body">>, <<"sensation">>, <<"mind", "ful">>,
        <<"meditation">>, <<"peace">>, <<"calm">>, <<"let", " ", "go">>,
        <<"non", "-", "judgment">> >>,
     psychodynamic |-> <<
        <<"past">>, <<"childhood">>, <<"parent">>, <<"relationship">>,
        <<"pattern">>, <<"unconscious">>, <<"dream">>, <<"defense">>,
        <<"resistance">>, <<"transference">>, <<"insight">>,
        <<"understand">>, <<"explore">>, <<"deeper">>, <<"underlying">>,
        <<"root">> >>,
     existential |-> <<
        <<"meaning">>, <<"purpose">>, <<"death">>, <<"freedom">>,
        <<"isolation">>, <<"authentic">>, <<"responsibility">>, <<"choice">>,
        <<"existence">>, <<"being">>, <<"nothingness">>, <<"anxiety">>,
        <<"dread">>, <<"courage">>, <<"create">>, <<"transcend">> >>,
     somatic |-> <<
        <<"body">>, <<"sensation">>, <<"physical">>, <<"tense">>,
        <<"relax">>, <<"breath">>, <<"stomach">>, <<"chest">>,
        <<"shoulders">>, <<"jaw">>, <<"embodied">>, <<"grounding">>,
        <<"nervous", " ", "system">>, <<"safety">>, <<"movement">>,
        <<"posture">> >>,
     solution_focused |-> <<
        <<"solution">>, <<"future">>, <<"what", " ", "works">>,
        <<"strengths">>, <<"resources">>, <<"scale">>, <<"better">>,
        <<"miracle">>, <<"exception">>, <<"success">>, <<"achieve">>,
        <<"improve">>, <<"positive">>, <<"different">>, <<"change">> >>,
     dialectical_behavioral |-> <<
        <<"balance">>, <<"accept">>, <<"change">>, <<"both">>,
        <<"middle", " ", "path">>, <<"skill", "s">>, <<"distress">>,
        <<"tolerance">>, <<"regulate">>, <<"effective">>,
        <<"wise", " ", "mind">>, <<"mind", "ful">>, <<"interpersonal">>,
        <<"radical", " ", "accept", "ance">>, <<"opposite", " ", "action">> >>,
     narrative |-> <<
        <<"story">>, <<"narrative">>, <<"reauthor">>, <<"externalize">>,
        <<"problem">>, <<"identity">>, <<"preferred">>,
        <<"unique", " ", "outcome">>, <<"dominant", " ", "story">>,
        <<"alternative">>, <<"meaning">>, <<"context">>, <<"influence">>,
        <<"agency">> >>,
     acceptance_commitment |-> <<
        <<"value", "s">>, <<"accept">>, <<"committed", " ", "action">>,
        <<"flexibility">>, <<"workable">>, <<"defusion">>, <<"present">>,
        <<"willing">>, <<"choice">>, <<"vitality">>, <<"meaning", "ful">>,
        <<"stuck">>, <<"struggle">>, <<"contact">>, <<"purpose">> >>]

\* patterns[approach].forEach(keyword => { if (text.includes(keyword)) indicators[approach]++ })
RECURSIVE CountHits(_, _)
CountHits(list, text) ==
    IF list = <<>> THEN 0
    ELSE (IF includes(text, Head(list)) THEN 1 ELSE 0) + CountHits(Tail(list), text)

\* "Analyze conversations": only user-authored messages are scanned.
RECURSIVE ScanConversations(_, _)
ScanConversations(convs, indicators) ==
    IF convs = <<>> THEN indicators
    ELSE LET conv == Head(convs)
             text == toLowerCase(conv.content)
             next == IF conv.role = "user"
                     THEN [a \in Modalities |-> indicators[a] + CountHits(patterns[a], text)]
                     ELSE indicators
         IN ScanConversations(Tail(convs), next)

\* The selection loop with ">=": the last approach with the maximum wins.
RECURSIVE PickPrimary_LastMaxWins(_, _, _)
PickPrimary_LastMaxWins(order, indicators, best) ==
    IF order = <<>> THEN best
    ELSE LET approach == Head(order)
             next == IF indicators[approach] >= best.maxScore
                     THEN [primaryModality |-> approach, maxScore |-> indicators[approach]]
                     ELSE best
         IN PickPrimary_LastMaxWins(Tail(order), indicators, next)

\* "Determine primary modality": a later approach replaces the current one
\* only with a strictly greater counter.
RECURSIVE PickPrimary(_, _, _)
PickPrimary(order, indicators, best) ==
    IF order = <<>> THEN best
    ELSE LET approach == Head(order)
             next == IF indicators[approach] > best.maxScore
                     THEN [primaryModality |-> approach, maxScore |-> indicators[approach]]
                     ELSE best
         IN PickPrimary(Tail(order), indicators, next)

vulnerabilityIndicators ==
    << <<"feel">>, <<"scared">>, <<"vulnerable">>, <<"honest">>, <<"truth">>,
       <<"shame">>, <<"guilt">> >>

\* The vulnerability score is kept in halves: 10 is 5.0, 20 is 10.
VulnerabilityStart == 10
VulnerabilityCap == 20

\* The indicator loop without Math.min(..., 10).
RECURSIVE BumpVulnerability_NoCap(_, _, _)
BumpVulnerability_NoCap(list, text, score) ==
    IF list = <<>> THEN score
    ELSE BumpVulnerability_NoCap(Tail(list), text,
            IF includes(text, Head(list)) THEN score + 1 ELSE score)

\* The score raised once for a message that contains any indicator.
BumpVulnerability_OncePerMessage(list, text, score) ==
    IF \E i \in 1..Len(list) : includes(text, list[i])
    THEN (IF score + 1 < VulnerabilityCap THEN score + 1 ELSE VulnerabilityCap)
    ELSE score

\* vulnerabilityScore = Math.min(vulnerabilityScore + 0.5, 10) per indicator hit
RECURSIVE BumpVulnerability(_, _, _)
BumpVulnerability(list, text, score) ==
    IF list = <<>> THEN score
    ELSE BumpVulnerability(Tail(list), text,
            IF includes(text, Head(list))
            THEN (IF score + 1 < VulnerabilityCap THEN score + 1 ELSE VulnerabilityCap)
            ELSE score)

\* The vulnerability scan without the test on conv.role.
RECURSIVE ScanVulnerability_AllRoles(_, _)
ScanVulnerability_AllRoles(convs, score) ==
    IF convs = <<>> THEN score
    ELSE ScanVulnerability_AllRoles(Tail(convs),
            BumpVulnerability(vulnerabilityIndicators, toLowerCase(Head(convs).content), score))

\* "Infer vulnerability comfort": only user-authored messages are scanned.
RECURSIVE ScanVulnerability(_, _)
ScanVulnerability(convs, score) ==
    IF convs = <<>> THEN score
    ELSE LET conv == Head(convs)
         IN ScanVulnerability(Tail(convs),
                IF conv.role = "user"
                THEN BumpVulnerability(vulnerabilityIndicators, toLowerCase(conv.content), score)
                ELSE score)

\* Math.round of a value given in halves
RoundHalves(h) == (h + 1) \div 2

gradualIndicators ==
    << <<"slowly">>, <<"gradually">>, <<"time">>, <<"process">>, <<"journey">> >>
breakthroughIndicators ==
    << <<"breakthrough">>, <<"sudden">>, <<"realize">>, <<"epiphany">>, <<"transform">> >>

RECURSIVE CountUserHits(_, _)
CountUserHits(convs, list) ==
    IF convs = <<>> THEN 0
    ELSE (IF Head(convs).role = "user"
          THEN CountHits(list, toLowerCase(Head(convs).content)) ELSE 0)
         + CountUserHits(Tail(convs), list)

\* inferCommunicationStyle(modality)
styles ==
    [cbt |-> [directness |-> 8, warmth |-> 6, structure |-> 9, pace |-> 7],
     humanistic |-> [directness |-> 4, warmth |-> 9, structure |-> 3, pace |-> 5],
     mindfulness |-> [directness |-> 5, warmth |-> 7, structure |-> 5, pace |-> 3],
     psychodynamic |-> [directness |-> 6, warmth |-> 7, structure |-> 6, pace |-> 4],
     existential |-> [directness |-> 7, warmth |-> 6, structure |-> 4, pace |-> 5],
     somatic |-> [directness |-> 5, warmth |-> 8, structure |-> 5, pace |-> 2],
     solution_focused |-> [directness |-> 7, warmth |-> 7, structure |-> 7, pace |-> 8],
     dialectical_behavioral |-> [directness |-> 6, warmth |-> 7, structure |-> 8, pace |-> 6],
     narrative |-> [directness |-> 5, warmth |-> 8, structure |-> 5, pace |-> 4],
     acceptance_commitment |-> [directness |-> 6, warmth |-> 7, structure |-> 6, pace |-> 5]]

\* The lookup that always takes the default entry.
inferCommunicationStyle_AlwaysDefault(m) == styles.humanistic

\* return styles[modality] || styles.humanistic
inferCommunicationStyle(m) ==
    IF m \in DOMAIN styles THEN styles[m] ELSE styles.humanistic

ConfidenceCut == 5

\* The counters after "Analyze conversations".
Indicators(convs) == ScanConversations(convs, [a \in Modalities |-> 0])

\* The inference with "maxScore >= 5" as the confidence test.
localInferTherapeuticPreferences_ConfidentAtFive(convs) ==
    LET indicators == Indicators(convs)
        best == PickPrimary(ModalityOrder, indicators,
                            [primaryModality |-> "humanistic", maxScore |-> 0])
        vulnerabilityScore == ScanVulnerability(convs, VulnerabilityStart)
        gradualCount == CountUserHits(convs, gradualIndicators)
        breakthroughCount == CountUserHits(convs, breakthroughIndicators)
    IN [primaryModality |-> best.primaryModality,
        vulnerabilityComfort |-> RoundHalves(vulnerabilityScore),
        changeBeliefs |-> IF breakthroughCount > gradualCount THEN "breakthrough" ELSE "gradual",
        communicationStyle |-> inferCommunicationStyle(best.primaryModality),
        confidence |-> IF best.maxScore >= ConfidenceCut THEN "0.8" ELSE "0.6",
        source |-> "local_detection"]

\* localInferTherapeuticPreferences(conversations)
localInferTherapeuticPreferences(convs) ==
    LET indicators == Indicators(convs)
        best == PickPrimary(ModalityOrder, indicators,
                            [primaryModality |-> "humanistic", maxScore |-> 0])
        vulnerabilityScore == ScanVulnerability(convs, VulnerabilityStart)
        gradualCount == CountUserHits(convs, gradualIndicators)
        breakthroughCount == CountUserHits(convs, breakthroughIndicators)
    IN [primaryModality |-> best.primaryModality,
        vulnerabilityComfort |-> RoundHalves(vulnerabilityScore),
        changeBeliefs |-> IF breakthroughCount > gradualCount THEN "breakthrough" ELSE "gradual",
        communicationStyle |-> inferCommunicationStyle(best.primaryModality),
        confidence |-> IF best.maxScore > ConfidenceCut THEN "0.8" ELSE "0.6",
        source |-> "local_detection"]

\* Phrases of the messages of a conversation history.
InferPhrases ==
    { <<"THOUGHT", " ", "evidence", " ", "practical">>,
      <<"pattern">>,
      <<"Feel", "ing">>,
      <<"accept">>,
      <<"feel", " ", "scared", " ", "vulnerable", " ", "honest", " ", "truth">>,
      <<"today">> }

\* What the assistant said in between.
AssistantPhrases == { <<"Feel", "ing">> }

HistoryMessages ==
    [role : {"user"}, content : InferPhrases]
    \cup [role : {"assistant"}, content : AssistantPhrases]
Histories == SeqsUpTo(HistoryMessages, MaxHistory)

(***************************************************************************)
(* therapeuticConversationService.js and routes/conversations.js: the      *)
(* POST /message handler, one step per call it makes.                      *)
(***************************************************************************)
crisisKeywords == <<
    <<"suicide">>,
    <<"kill", " ", "myself">>,
    <<"want", " ", "to", " ", "die">>,
    <<"end", " ", "it", " ", "all">>,
    <<"no", " ", "reason", " ", "to", " ", "live">>,
    <<"better", " ", "off", " ", "dead">>,
    <<"hurt", " ", "myself">>,
    <<"self", "-", "harm">>,
    <<"cutting">>,
    <<"overdose">> >>

\* crisisKeywords.some(keyword => text.includes(keyword))
SomeCrisisKeyword(text) ==
    \E i \in 1..Len(crisisKeywords) : includes(text, crisisKeywords[i])

\* conversationHistory.slice(-n)
LastN(history, n) ==
    IF Len(history) <= n THEN history
    ELSE SubSeq(history, Len(history) - n + 1, Len(history))

EscalationWindow == 5

\* analyzeCrisisIndicators(userMessage, conversationHistory)
analyzeCrisisIndicators(userMessage, conversationHistory) ==
    LET hasCrisisKeywords == SomeCrisisKeyword(toLowerCase(userMessage))
        recentMessages == LastN(conversationHistory, EscalationWindow)
        escalationPattern ==
            \E i \in 1..Len(recentMessages) :
                SomeCrisisKeyword(toLowerCase(recentMessages[i].content))
    IN [crisis_indicators |-> hasCrisisKeywords \/ escalationPattern,
        severity |-> IF hasCrisisKeywords THEN "high"
                     ELSE IF escalationPattern THEN "moderate" ELSE "low"]

\* getConversationHistory(userId): the stub returns no rows.
getConversationHistory(u) == <<>>

\* selectTherapeuticModality: reads therapeuticPreferences.therapeuticPreferences
\* ?.primary, a field the inferred profile does not carry, and falls back to
\* the humanistic configuration.
ConfiguredModalities == {"cbt", "humanistic", "mindfulness", "psychodynamic", "existential"}
selectTherapeuticModality(prefs) ==
    LET primaryModality ==
            IF "therapeuticPreferences" \in DOMAIN prefs
            THEN prefs.therapeuticPreferences.primary
            ELSE "humanistic"
    IN IF primaryModality \in ConfiguredModalities THEN primaryModality ELSE "humanistic"

\* this.therapeuticModalities: the instruction fragment and the default
\* communication style of the five configurations.
therapeuticModalities ==
    [cbt |->
        [systemPrompt |-> "You are a CBT-focused therapeutic assistant.",
         communicationStyle |-> [directness |-> "high", warmth |-> "moderate",
                                 structure |-> "high", pace |-> "moderate"]],
     humanistic |->
        [systemPrompt |-> "You are a humanistic therapeutic assistant.",
         communicationStyle |-> [directness |-> "low", warmth |-> "very_high",
                                 structure |-> "low", pace |-> "gradual"]],
     mindfulness |->
        [systemPrompt |-> "You are a mindfulness-focused therapeutic assistant.",
         communicationStyle |-> [directness |-> "low", warmth |-> "high",
                                 structure |-> "low", pace |-> "slow"]],
     psychodynamic |->
        [systemPrompt |-> "You are a psychodynamic therapeutic assistant.",
         communicationStyle |-> [directness |-> "moderate", warmth |-> "high",
                                 structure |-> "moderate", pace |-> "gradual"]],
     existential |->
        [systemPrompt |-> "You are an existential therapeutic assistant.",
         communicationStyle |-> [directness |-> "high", warmth |-> "moderate",
                                 structure |-> "moderate", pace |-> "moderate"]]]

\* The clauses buildSystemPrompt appends.
NonDirectiveClause == "Use gentle, non-directive language. Ask questions rather than give advice."
DirectClause == "Be direct and clear in your communication. Offer specific suggestions when appropriate."
WarmthClause == "Maintain very warm, empathetic, and supportive communication."
SlowPaceClause == "Use a slower, more contemplative pace. Allow space for reflection."
CrisisClause == "IMPORTANT: User may be in crisis. Maintain safety, provide crisis resources, and encourage professional help."
VulnerabilityClause == "User is showing high vulnerability. Be extra gentle and supportive."

\* A property the object does not carry reads as undefined.
Undefined == [undefined |-> TRUE]

\* therapeuticPreferences.communication_style
communication_style(prefs) ==
    IF "communication_style" \in DOMAIN prefs THEN prefs.communication_style ELSE Undefined

\* buildSystemPrompt(modality, preferences, context): the prompt is the
\* sequence of its paragraphs.
buildSystemPrompt(m, preferences, ctx) ==
    LET style == IF communication_style(preferences) # Undefined
                 THEN communication_style(preferences)
                 ELSE therapeuticModalities[m].communicationStyle
    IN    <<therapeuticModalities[m].systemPrompt>>
       \o (IF style.directness = "low" THEN <<NonDirectiveClause>>
           ELSE IF style.directness = "high" THEN <<DirectClause>>
           ELSE <<>>)
       \o (IF style.warmth = "very_high" THEN <<WarmthClause>> ELSE <<>>)
       \o (IF style.pace = "slow" THEN <<SlowPaceClause>> ELSE <<>>)
       \o (IF ctx.crisis_indicators THEN <<CrisisClause>> ELSE <<>>)
       \o (IF ctx.vulnerability_level = "high" THEN <<VulnerabilityClause>> ELSE <<>>)

\* response.replace(/from/g, to): every occurrence of the phrase.
replace(response, from, to) ==
    [i \in DOMAIN response |-> IF response[i] = from THEN to ELSE response[i]]

\* makeLessDirect(response)
makeLessDirect(response) ==
    replace(replace(replace(replace(response,
        "You should", "You might consider"),
        "You need to", "It could be helpful to"),
        "I recommend", "I wonder if"),
        "Try this", "Perhaps you could explore")

\* The rewrite that undoes makeLessDirect phrase by phrase.
makeMoreDirect_Inverse(response) ==
    replace(replace(replace(replace(response,
        "You might consider", "You should"),
        "It could be helpful to", "You need to"),
        "I wonder if", "I recommend"),
        "Perhaps you could explore", "Try this")

\* makeMoreDirect(response)
makeMoreDirect(response) ==
    replace(replace(replace(replace(response,
        "You might consider", "I recommend"),
        "It could be helpful to", "You should"),
        "I wonder if", "I suggest"),
        "Perhaps you could explore", "Try this")

\* The sentence separator '. '
Stop == ". "

\* response.split('. ')
RECURSIVE SplitFrom(_, _, _)
SplitFrom(text, i, cur) ==
    IF i > Len(text) THEN <<cur>>
    ELSE IF text[i] = Stop THEN <<cur>> \o SplitFrom(text, i + 1, <<>>)
    ELSE SplitFrom(text, i + 1, Append(cur, text[i]))

split(text) == SplitFrom(text, 1, <<>>)

\* sentences.join('. ')
RECURSIVE join(_)
join(sentences) ==
    IF sentences = <<>> THEN <<>>
    ELSE IF Len(sentences) = 1 THEN sentences[1]
    ELSE sentences[1] \o <<Stop>> \o join(Tail(sentences))

warmPhrases == <<
    <<"I hear you">>,
    <<"That sounds", " really challenging">>,
    <<"I appreciate you sharing that">>,
    <<"You're doing important work">>,
    <<"I'm here with you">> >>

\* The insertion guarded by a test for every phrase of warmPhrases.
increaseWarmth_AnyWarmPhrase(response, pick) ==
    IF \A k \in 1..Len(warmPhrases) : ~includes(response, warmPhrases[k])
    THEN LET sentences == split(response)
         IN IF Len(sentences) > 1
            THEN join(<<sentences[1]>> \o <<warmPhrases[pick + 1]>> \o Tail(sentences))
            ELSE response
    ELSE response

\* increaseWarmth(response); pick is Math.floor(Math.random() * warmPhrases.length)
increaseWarmth(response, pick) ==
    IF ~includes(response, <<"I hear you">>) /\ ~includes(response, <<"That sounds">>)
    THEN LET sentences == split(response)
         IN IF Len(sentences) > 1
            THEN join(<<sentences[1]>> \o <<warmPhrases[pick + 1]>> \o Tail(sentences))
            ELSE response
    ELSE response

\* adaptResponseToCommunicationStyle(response, communicationStyle)
adaptResponseToCommunicationStyle(response, communicationStyle, pick) ==
    IF communicationStyle = Undefined THEN response
    ELSE LET directed ==
                 IF communicationStyle.directness = "low" THEN makeLessDirect(response)
                 ELSE IF communicationStyle.directness = "high" THEN makeMoreDirect(response)
                 ELSE response
         IN IF communicationStyle.warmth = "very_high"
            THEN increaseWarmth(directed, pick)
            ELSE directed

\* The values Math.floor(Math.random() * warmPhrases.length) can take.
Picks == 0..(Len(warmPhrases) - 1)

\* What a caller may put in the context of a message.
Contexts == [crisis_indicators : BOOLEAN, vulnerability_level : {"unset", "high"}]

\* { ...context, crisis_indicators: crisisAnalysis.crisis_indicators } when the
\* message came through the route, the caller's context otherwise.
GenerationContext ==
    IF crisisAnalysis = NoResult THEN context
    ELSE [context EXCEPT !.crisis_indicators = crisisAnalysis.crisis_indicators]

\* The body sent when crisis indicators are found.
CrisisReply ==
    [status |-> 200,
     response |-> "crisis_resources_message",
     therapeuticModality |-> "Crisis Response",
     conversationDepth |-> "crisis",
     requiresImmediateAttention |-> TRUE]

\* Phrases of the messages posted to the handler.
FlowPhrases ==
    { <<"I", " ", "want", " ", "to">>,
      <<"end", " ", "my", " ", "life">>,
      <<"SUICIDE">>,
      <<"overdose">>,
      <<"today">> }

FlowMessages == {JoinPhrases(ps) : ps \in SeqsUpTo(FlowPhrases, MaxPhrases)}

CrisisIdle ==
    /\ emotionalState = NoEmotion
    /\ crisisHistory = [failed |-> FALSE, count |-> 0]
    /\ assessment = NoResult

InitFlow ==
    /\ userId \in Users \cup {NoUser}
    /\ message \in FlowMessages
    /\ openaiUp \in BOOLEAN
    /\ pc = "received"
    /\ crisisAnalysis = NoResult
    /\ trace = <<>>
    /\ httpResponse = NoResult
    /\ modality = "none"
    /\ generated = "none"
    /\ conversations = <<>>
    /\ profile = NoResult
    /\ context \in Contexts
    /\ systemPrompt = <<>>
    /\ adapted = "none"
    /\ CrisisIdle
    /\ ServicesIdle

FlowFrame ==
    /\ UNCHANGED <<userId, message, emotionalState, crisisHistory, assessment, openaiUp>>
    /\ UNCHANGED context
    /\ UNCHANGED serviceVars

\* if (!message || !userId) return res.status(400)
Validate ==
    /\ pc = "received"
    /\ IF message = <<>> \/ userId = NoUser
       THEN /\ pc' = "done"
            /\ httpResponse' = [status |-> 400]
       ELSE /\ pc' = "history"
            /\ UNCHANGED httpResponse
    /\ UNCHANGED <<crisisAnalysis, trace, conversations, profile, modality, generated, systemPrompt, adapted>>
    /\ FlowFrame

\* The handler going from the history straight to the response generation.
GetHistory_SkipsCrisisCheck ==
    /\ pc = "history"
    /\ conversations' = getConversationHistory(userId)
    /\ trace' = Append(trace, "getConversationHistory")
    /\ pc' = "preferences"
    /\ UNCHANGED <<crisisAnalysis, httpResponse, profile, modality, generated, systemPrompt, adapted>>
    /\ FlowFrame

\* const conversationHistory = await getConversationHistory(userId)
GetHistory ==
    /\ pc = "history"
    /\ conversations' = getConversationHistory(userId)
    /\ trace' = Append(trace, "getConversationHistory")
    /\ pc' = "crisis"
    /\ UNCHANGED <<crisisAnalysis, httpResponse, profile, modality, generated, systemPrompt, adapted>>
    /\ FlowFrame

\* const crisisAnalysis = analyzeCrisisIndicators(message, conversationHistory)
\* and the immediate safety response when crisis_indicators is set
AnalyzeCrisis ==
    /\ pc = "crisis"
    /\ crisisAnalysis' = analyzeCrisisIndicators(message, conversations)
    /\ IF crisisAnalysis'.crisis_indicators
       THEN /\ trace' = trace \o <<"analyzeCrisisIndicators", "getCrisisResources">>
            /\ httpResponse' = CrisisReply
            /\ pc' = "done"
       ELSE /\ trace' = Append(trace, "analyzeCrisisIndicators")
            /\ UNCHANGED httpResponse
            /\ pc' = "preferences"
    /\ UNCHANGED <<conversations, profile, modality, generated, systemPrompt, adapted>>
    /\ FlowFrame

\* generateTherapeuticResponse, first await: getUserTherapeuticPreferences ->
\* inferTherapeuticPreferences, which computes the profile locally while the
\* belief store is not flagged available.
InferPreferences ==
    /\ pc = "preferences"
    /\ profile' = localInferTherapeuticPreferences(conversations)
    /\ trace' = Append(trace, "inferTherapeuticPreferences")
    /\ pc' = "modality"
    /\ UNCHANGED <<crisisAnalysis, httpResponse, conversations, modality, generated, systemPrompt, adapted>>
    /\ FlowFrame

\* const modality = this.selectTherapeuticModality(therapeuticPreferences)
SelectModality ==
    /\ pc = "modality"
    /\ modality' = selectTherapeuticModality(profile)
    /\ trace' = Append(trace, "selectTherapeuticModality")
    /\ pc' = "generate"
    /\ UNCHANGED <<crisisAnalysis, httpResponse, conversations, profile, generated, systemPrompt, adapted>>
    /\ FlowFrame

\* modality.name.toLowerCase().split(' ')[0]
FirstWordOfName ==
    [cbt |-> "cognitive", humanistic |-> "humanistic", mindfulness |-> "mindfulness",
     psychodynamic |-> "psychodynamic", existential |-> "existential"]

\* getModalityFallbackResponse(modality, userMessage)
getModalityFallbackResponse(m) ==
    IF FirstWordOfName[m] \in ConfiguredModalities
    THEN <<"fallback", FirstWordOfName[m]>>
    ELSE <<"fallback", "humanistic">>

\* generateModalitySpecificResponse: buildSystemPrompt, the call to
\* openai.chat.completions.create, and the modality fallback when it throws
Generate ==
    /\ pc = "generate"
    /\ systemPrompt' = buildSystemPrompt(modality, profile, GenerationContext)
    /\ trace' = Append(trace, "openai.chat.completions.create")
    /\ generated' = IF openaiUp THEN <<"completion", modality>>
                    ELSE getModalityFallbackResponse(modality)
    /\ pc' = "respond"
    /\ UNCHANGED <<crisisAnalysis, httpResponse, conversations, profile, modality, adapted>>
    /\ FlowFrame

\* adaptResponseToCommunicationStyle on the generated text, saveConversation
\* twice and res.json(therapeuticResponse)
Respond ==
    /\ pc = "respond"
    /\ \E pick \in Picks :
          adapted' = adaptResponseToCommunicationStyle(generated,
                                                       communication_style(profile), pick)
    /\ httpResponse' = [status |-> 200,
                        response |-> adapted',
                        therapeuticModality |-> modality,
                        beliefConfidence |-> profile.confidence]
    /\ trace' = trace \o <<"saveConversation", "saveConversation">>
    /\ pc' = "done"
    /\ UNCHANGED <<crisisAnalysis, conversations, profile, modality, generated, systemPrompt>>
    /\ FlowFrame

NextFlow ==
    \/ Validate
    \/ GetHistory
    \/ AnalyzeCrisis
    \/ InferPreferences
    \/ SelectModality
    \/ Generate
    \/ Respond

SpecFlow == InitFlow /\ [][NextFlow]_vars

(***************************************************************************)
(* Specification of response generation: generateModalitySpecificResponse  *)
(* called with each modality configuration, the generation collaborator    *)
(* answering or failing.                                                   *)
(***************************************************************************)
InitGenerate ==
    /\ userId = "u1"
    /\ message \in FlowMessages
    /\ openaiUp \in BOOLEAN
    /\ modality \in ConfiguredModalities
    /\ pc = "generate"
    /\ crisisAnalysis = NoResult
    /\ trace = <<>>
    /\ httpResponse = NoResult
    /\ generated = "none"
    /\ conversations = <<>>
    /\ profile = NoResult
    /\ ResponseIdle
    /\ CrisisIdle
    /\ ServicesIdle

NextGenerate == Generate

SpecGenerate == InitGenerate /\ [][NextGenerate]_vars

(***************************************************************************)
(* Specification of generateTherapeuticResponse called with a conversation *)
(* history and a context: preferences, modality, generation, adaptation.   *)
(***************************************************************************)
InitRespond ==
    /\ userId = "u1"
    /\ message = <<"today">>
    /\ openaiUp \in BOOLEAN
    /\ conversations \in Histories
    /\ context \in Contexts
    /\ pc = "preferences"
    /\ crisisAnalysis = NoResult
    /\ trace = <<>>
    /\ httpResponse = NoResult
    /\ modality = "none"
    /\ generated = "none"
    /\ profile = NoResult
    /\ systemPrompt = <<>>
    /\ adapted = "none"
    /\ CrisisIdle
    /\ ServicesIdle

\* adaptResponseToCommunicationStyle(response, therapeuticPreferences
\* .communication_style) and the object generateTherapeuticResponse returns
Return ==
    /\ pc = "respond"
    /\ \E pick \in Picks :
          adapted' = adaptResponseToCommunicationStyle(generated,
                                                       communication_style(profile), pick)
    /\ httpResponse' = [response |-> adapted',
                        therapeuticModality |-> modality,
                        beliefConfidence |-> profile.confidence]
    /\ pc' = "returned"
    /\ UNCHANGED <<crisisAnalysis, trace, conversations, profile, modality, generated,
                   systemPrompt>>
    /\ FlowFrame

NextRespond ==
    \/ InferPreferences
    \/ SelectModality
    \/ Generate
    \/ Return

SpecRespond == InitRespond /\ [][NextRespond]_vars

(***************************************************************************)
(* Specification of text adaptation: Init draws the generated text, Adapt  *)
(* applies adaptResponseToCommunicationStyle to the text adapted so far,   *)
(* with the communication style of a configuration or none.                *)
(***************************************************************************)
MaxSentences == 2
MaxAdaptations == 2

\* Sentences of a generated text.
Sentences ==
    { <<"You should", " rest">>,
      <<"You need to", " rest">>,
      <<"I recommend", " rest">>,
      <<"Try this">>,
      <<"I hear you">>,
      <<"That sounds", " hard">>,
      <<"I appreciate you sharing that">>,
      <<"Take a breath">> }

ResponseTexts == {join(ss) : ss \in SeqsUpTo(Sentences, MaxSentences)}

\* The styles adaptation is called with: a configuration's, or undefined.
AdaptStyles ==
    {therapeuticModalities[m].communicationStyle : m \in DOMAIN therapeuticModalities}
    \cup {Undefined}

InitAdapt ==
    /\ generated \in ResponseTexts
    /\ adapted = generated
    /\ trace = <<>>
    /\ pc = "idle"
    /\ crisisAnalysis = NoResult
    /\ openaiUp = TRUE
    /\ httpResponse = NoResult
    /\ modality = "none"
    /\ context = EmptyContext
    /\ systemPrompt = <<>>
    /\ userId = "u1"
    /\ message = <<>>
    /\ CrisisIdle
    /\ InferIdle
    /\ ServicesIdle

\* adaptedResponse = adaptResponseToCommunicationStyle(response, style)
Adapt ==
    /\ Len(trace) < MaxAdaptations
    /\ \E communicationStyle \in AdaptStyles, pick \in Picks :
          /\ adapted' = adaptResponseToCommunicationStyle(adapted, communicationStyle, pick)
          /\ trace' = Append(trace, communicationStyle)
    /\ UNCHANGED <<pc, crisisAnalysis, openaiUp, httpResponse, modality, generated>>
    /\ UNCHANGED <<context, systemPrompt>>
    /\ UNCHANGED crisisVars
    /\ UNCHANGED inferVars
    /\ UNCHANGED serviceVars

NextAdapt == Adapt

SpecAdapt == InitAdapt /\ [][NextAdapt]_vars

(***************************************************************************)
(* Specification of local preference inference: Init draws the history,    *)
(* Infer applies localInferTherapeuticPreferences to it.                   *)
(***************************************************************************)
InitInfer ==
    /\ conversations \in Histories
    /\ profile = NoResult
    /\ userId = "u1"
    /\ message = <<>>
    /\ CrisisIdle
    /\ FlowIdle
    /\ ServicesIdle
    /\ ResponseIdle

Infer ==
    /\ profile = NoResult
    /\ profile' = localInferTherapeuticPreferences(conversations)
    /\ UNCHANGED conversations
    /\ UNCHANGED crisisVars
    /\ UNCHANGED flowVars
    /\ UNCHANGED serviceVars
    /\ UNCHANGED responseVars

NextInfer == Infer

SpecInfer == InitInfer /\ [][NextInfer]_vars

Inferred == profile # NoResult

(***************************************************************************)
(* epistemicMeService.js and beliefModelingService.inferTherapeuticPreferences *)
(* : the belief store is tried first, local detection is the fallback.     *)
(***************************************************************************)
MaxCalls == 3        \* calls of inferTherapeuticPreferences in a run

Null == [null |-> TRUE]

\* What the belief store answers during one call of
\* inferTherapeuticPreferences: the self-model request, the belief posts and
\* the belief-system request each succeed or fail.
BeliefSystemA == [beliefs |-> << <<"practical">>, <<"open">> >>]
StoreOutcomes ==
    { [selfModel |-> "ok", track |-> "ok", beliefSystem |-> [status |-> "ok", data |-> BeliefSystemA]],
      [selfModel |-> "error", track |-> "ok", beliefSystem |-> [status |-> "ok", data |-> BeliefSystemA]],
      [selfModel |-> "ok", track |-> "error", beliefSystem |-> [status |-> "ok", data |-> BeliefSystemA]],
      [selfModel |-> "ok", track |-> "ok", beliefSystem |-> [status |-> "error", data |-> Null]],
      [selfModel |-> "ok", track |-> "ok", beliefSystem |-> [status |-> "absent", data |-> Null]] }

\* No request is sent: the store is flagged unavailable or there is no user id.
NotAsked == [selfModel |-> "none", track |-> "none",
             beliefSystem |-> [status |-> "none", data |-> Null]]

\* ensureUserSelfModel: the data of the response, or null when the request
\* fails (a 404 leads to createSelfModel, which answers the same way).
ensureUserSelfModel(avail, store) ==
    IF ~avail THEN Null
    ELSE IF store.selfModel = "ok" THEN [id |-> "self-model"] ELSE Null

\* trackBeliefFromConversation: the data of the response, or null on failure
trackBeliefFromConversation(avail, store) ==
    IF ~avail THEN Null
    ELSE IF store.track = "ok" THEN [id |-> "belief"] ELSE Null

\* getUserBeliefSystem: the data of the response, or null on failure
getUserBeliefSystem(avail, store) ==
    IF ~avail THEN Null
    ELSE IF store.beliefSystem.status = "ok" THEN store.beliefSystem.data ELSE Null

\* extractTherapeuticPreferences: beliefs.forEach over the defaults
RECURSIVE ExtractFromBeliefs(_, _)
ExtractFromBeliefs(beliefs, preferences) ==
    IF beliefs = <<>> THEN preferences
    ELSE LET content == toLowerCase(Head(beliefs))
             p1 == IF includes(content, <<"practical">>) \/ includes(content, <<"solution">>)
                   THEN [preferences EXCEPT !.primaryModality = "cbt"]
                   ELSE IF includes(content, <<"growth">>) \/ includes(content, <<"potential">>)
                   THEN [preferences EXCEPT !.primaryModality = "humanistic"]
                   ELSE IF includes(content, <<"mind", "ful">>) \/ includes(content, <<"present">>)
                   THEN [preferences EXCEPT !.primaryModality = "mindfulness"]
                   ELSE preferences
             p2 == IF includes(content, <<"comfortable", " ", "sharing">>)
                      \/ includes(content, <<"open">>)
                   THEN [p1 EXCEPT !.vulnerabilityComfort =
                            IF p1.vulnerabilityComfort + 1 < 10
                            THEN p1.vulnerabilityComfort + 1 ELSE 10]
                   ELSE p1
         IN ExtractFromBeliefs(Tail(beliefs), p2)

extractTherapeuticPreferences(beliefSystem) ==
    ExtractFromBeliefs(beliefSystem.beliefs,
        [primaryModality |-> "humanistic",
         vulnerabilityComfort |-> 5,
         changeBeliefs |-> "gradual",
         communicationStyle |-> [directness |-> 5, warmth |-> 7, structure |-> 5, pace |-> 5]])

\* getTherapeuticPreferences: null when the belief system cannot be had
getTherapeuticPreferences(avail, store) ==
    IF ~avail THEN Null
    ELSE LET beliefSystem == getUserBeliefSystem(avail, store)
         IN IF beliefSystem = Null THEN Null
            ELSE extractTherapeuticPreferences(beliefSystem)

\* { ...preferences, source: 'epistemic_me' }
FromStore(preferences) ==
    [primaryModality |-> preferences.primaryModality,
     vulnerabilityComfort |-> preferences.vulnerabilityComfort,
     changeBeliefs |-> preferences.changeBeliefs,
     communicationStyle |-> preferences.communicationStyle,
     source |-> "epistemic_me"]

\* inferTherapeuticPreferences(conversations, userProfile): the results of
\* ensureUserSelfModel and trackBeliefFromConversation are not looked at.
inferTherapeuticPreferences(convs, id, avail, store) ==
    IF avail /\ id # NoUser
    THEN LET selfModel == ensureUserSelfModel(avail, store)
             tracked == [i \in 1..Len(LastN(convs, 5)) |->
                            IF LastN(convs, 5)[i].role = "user"
                            THEN trackBeliefFromConversation(avail, store) ELSE Null]
             preferences == getTherapeuticPreferences(avail, store)
         IN IF preferences # Null THEN FromStore(preferences)
            ELSE localInferTherapeuticPreferences(convs)
    ELSE localInferTherapeuticPreferences(convs)

\* The window of "conversations.slice(-5)"
TrackWindow == 5

\* The engine submitting the last five user-authored messages of the history.
StoreRequests_LastFiveUserMessages(convs, id, avail) ==
    IF avail /\ id # NoUser
    THEN LET authored == SelectSeq(convs, LAMBDA conv : conv.role = "user")
             recent == LastN(authored, TrackWindow)
         IN    <<[request |-> "ensureUserSelfModel", userId |-> id]>>
            \o [i \in 1..Len(recent) |->
                   [request |-> "trackBeliefFromConversation", userId |-> id,
                    content |-> recent[i].content, beliefType |-> "STATEMENT"]]
            \o <<[request |-> "getTherapeuticPreferences", userId |-> id]>>
    ELSE <<>>

\* The calls inferTherapeuticPreferences makes on the belief store, in order:
\* ensureUserSelfModel, trackBeliefFromConversation for each conv of
\* conversations.slice(-5) with role 'user', getTherapeuticPreferences.
StoreRequests(convs, id, avail) ==
    IF avail /\ id # NoUser
    THEN LET recent == SelectSeq(LastN(convs, TrackWindow), LAMBDA conv : conv.role = "user")
         IN    <<[request |-> "ensureUserSelfModel", userId |-> id]>>
            \o [i \in 1..Len(recent) |->
                   [request |-> "trackBeliefFromConversation", userId |-> id,
                    content |-> recent[i].content, beliefType |-> "STATEMENT"]]
            \o <<[request |-> "getTherapeuticPreferences", userId |-> id]>>
    ELSE <<>>

\* Histories handed to the engine.
EngineHistories ==
    { << [role |-> "user", content |-> <<"THOUGHT", " ", "evidence", " ", "practical">>] >>,
      << [role |-> "user", content |-> <<"Feel", "ing">>],
         [role |-> "assistant", content |-> <<"Feel", "ing">>],
         [role |-> "user", content |-> <<"accept">>],
         [role |-> "assistant", content |-> <<"Feel", "ing">>],
         [role |-> "user", content |-> <<"today">>],
         [role |-> "assistant", content |-> <<"Feel", "ing">>] >> }

InferenceRuns == SelectSeq(runs, LAMBDA r : r.call = "inferTherapeuticPreferences")

InitEngine ==
    /\ isAvailable = FALSE
    /\ runs = <<>>
    /\ userId = "u1"
    /\ message = <<>>
    /\ CrisisIdle
    /\ FlowIdle
    /\ InferIdle
    /\ SafetyIdle
    /\ DialecticIdle
    /\ ResponseIdle

EngineFrame ==
    /\ UNCHANGED crisisVars
    /\ UNCHANGED flowVars
    /\ UNCHANGED inferVars
    /\ UNCHANGED <<db, safetyPlan, crisisResponse, sessions, dialectic>>
    /\ UNCHANGED responseVars

\* The health check run again while the service is up.
CheckAvailability_Again ==
    /\ \E healthy \in BOOLEAN :
          /\ isAvailable' = healthy
          /\ runs' = Append(runs, [call |-> "checkAvailability", result |-> healthy])
    /\ EngineFrame

\* checkAvailability, started by the constructor: the health request answers
\* 200 or fails.
CheckAvailability ==
    /\ \A i \in 1..Len(runs) : runs[i].call # "checkAvailability"
    /\ \E healthy \in BOOLEAN :
          /\ isAvailable' = healthy
          /\ runs' = Append(runs, [call |-> "checkAvailability", result |-> healthy])
    /\ EngineFrame

\* The engine with the modality counters kept from one call to the next.
CallInfer_KeepsCounters ==
    /\ Len(InferenceRuns) < MaxCalls
    /\ \E convs \in EngineHistories, id \in {userId, NoUser} :
       \E store \in (IF isAvailable /\ id # NoUser THEN StoreOutcomes ELSE {NotAsked}) :
          LET previous == IF InferenceRuns = <<>> THEN <<>>
                          ELSE InferenceRuns[Len(InferenceRuns)].conversations
              result == inferTherapeuticPreferences(previous \o convs, id, isAvailable, store)
          IN runs' = Append(runs, [call |-> "inferTherapeuticPreferences",
                                   conversations |-> convs,
                                   userId |-> id,
                                   available |-> isAvailable,
                                   store |-> store,
                                   requests |-> StoreRequests(convs, id, isAvailable),
                                   result |-> result])
    /\ UNCHANGED isAvailable
    /\ EngineFrame

\* A caller invokes inferTherapeuticPreferences(conversations, {id}).
CallInfer ==
    /\ Len(InferenceRuns) < MaxCalls
    /\ \E convs \in EngineHistories, id \in {userId, NoUser} :
       \E store \in (IF isAvailable /\ id # NoUser THEN StoreOutcomes ELSE {NotAsked}) :
          runs' = Append(runs, [call |-> "inferTherapeuticPreferences",
                                conversations |-> convs,
                                userId |-> id,
                                available |-> isAvailable,
                                store |-> store,
                                requests |-> StoreRequests(convs, id, isAvailable),
                                result |-> inferTherapeuticPreferences(convs, id, isAvailable, store)])
    /\ UNCHANGED isAvailable
    /\ EngineFrame

\* dialecticService.startTherapeuticDialectic over the same flag: the question
\* table and the two belief-store calls of the dialectic service.
dialecticPrompts ==
    [therapeutic_approach |-> "Let's explore your beliefs about how therapy works.",
     vulnerability |-> "How do you feel about being vulnerable and sharing deep emotions?",
     change_beliefs |-> "When you think about personal change, do you see it as something that happens gradually over time, or through sudden breakthroughs and realizations?",
     self_efficacy |-> "How confident do you feel in your ability to work through mental health challenges?",
     meaning_making |-> "How do you make sense of difficult experiences?"]

\* createTherapeuticDialectic: the data of the response, or null
createTherapeuticDialectic(avail, outcome) ==
    IF ~avail THEN Null
    ELSE IF outcome = "ok" THEN [id |-> "d1"] ELSE Null

\* updateDialectic: the data of the response, or null
updateDialectic(avail, outcome) ==
    IF ~avail THEN Null
    ELSE IF outcome = "ok" THEN [id |-> "d1"] ELSE Null

\* The focus area a question is asked for.
StartAreas == {"vulnerability"}

\* The focus area of the last question posed, "none" before the first.
Posed == IF dialectic = NoResult THEN "none" ELSE dialectic.posed

\* startTherapeuticDialectic(userId, focusArea)
StartDialectic ==
    /\ \E focusArea \in StartAreas, outcome \in {"ok", "error"} :
          LET question == IF focusArea \in DOMAIN dialecticPrompts
                          THEN dialecticPrompts[focusArea]
                          ELSE dialecticPrompts.therapeutic_approach
              created == createTherapeuticDialectic(isAvailable, outcome)
          IN dialectic' =
                [call |-> "startTherapeuticDialectic",
                 posed |-> focusArea,
                 focusArea |-> focusArea,
                 question |-> question,
                 available |-> isAvailable,
                 requests |-> IF isAvailable THEN <<"createTherapeuticDialectic">> ELSE <<>>,
                 dialecticId |-> IF isAvailable
                                 THEN (IF created = Null THEN Undefined ELSE created)
                                 ELSE Null,
                 source |-> IF isAvailable THEN "epistemic_me" ELSE "local"]
    /\ UNCHANGED crisisVars
    /\ UNCHANGED flowVars
    /\ UNCHANGED inferVars
    /\ UNCHANGED <<isAvailable, runs, db, safetyPlan, crisisResponse, sessions>>
    /\ UNCHANGED responseVars

NextEngine ==
    \/ CheckAvailability
    \/ CallInfer
    \/ StartDialectic

SpecEngine == InitEngine /\ [][NextEngine]_vars

(***************************************************************************)
(* safetyService.js: getCrisisResponse and getPersonalizedSafetyPlan over  *)
(* the therapeutic_profiles table.                                         *)
(***************************************************************************)
CRISIS_RESOURCES ==
    << [name |-> "Crisis Text Line", contact |-> "Text HOME to 741741", type |-> "text"],
       [name |-> "National Suicide Prevention Lifeline", contact |-> "988", type |-> "phone"],
       [name |-> "Emergency Services", contact |-> "911", type |-> "emergency"] >>

\* The response without the emergency-services entry.
getCrisisResponse_TwoResources ==
    [message |-> "I'm very concerned about what you're sharing",
     resources |-> SubSeq(CRISIS_RESOURCES, 1, 2),
     followUpRequired |-> TRUE]

\* getCrisisResponse()
getCrisisResponse ==
    [message |-> "I'm very concerned about what you're sharing",
     resources |-> CRISIS_RESOURCES,
     followUpRequired |-> TRUE]

\* "Framework-specific coping strategies", each entry named by its heading
copingStrategies ==
    [cognitive_behavioral |->
        <<"Challenge the thoughts", "Behavioral activation", "Problem-solving">>,
     humanistic |->
        <<"Self-compassion", "Connect with your values", "Reach out">>,
     mindfulness |->
        <<"Grounding", "Breathing", "Observe without judgment">>,
     psychodynamic |->
        <<"Express emotions", "Identify patterns", "Seek understanding">>]

\* primary_framework of a row whose column is null or empty
NoFramework == ""

\* SELECT * FROM therapeutic_profiles WHERE user_id = $1
ProfileRows(u, tables) ==
    SelectSeq(tables.therapeutic_profiles, LAMBDA row : row.user_id = u)

\* "Return default safety plan" (the catch block)
DefaultSafetyPlan ==
    [immediate_steps |-> <<"Ensure your immediate safety",
                           "Contact a crisis resource",
                           "Reach out to someone you trust">>,
     coping_strategies |-> <<"Take deep breaths", "Go to a safe place",
                             "Use grounding techniques">>,
     support_resources |-> CRISIS_RESOURCES,
     reminder |-> "You are not alone. Help is available."]

\* The plan with the humanistic strategies whatever the framework.
getPersonalizedSafetyPlan_IgnoresFramework(u, tables) ==
    IF ~tables.up THEN DefaultSafetyPlan
    ELSE [immediate_steps |-> <<"Ensure your immediate safety",
                                "Remove any means of self-harm from your environment",
                                "Contact a crisis resource or trusted person">>,
          coping_strategies |-> copingStrategies.humanistic,
          support_resources |-> CRISIS_RESOURCES,
          reminder |-> "This intense feeling will pass. You have survived difficult times before."]

\* getPersonalizedSafetyPlan(userId)
getPersonalizedSafetyPlan(u, tables) ==
    IF ~tables.up THEN DefaultSafetyPlan
    ELSE LET rows == ProfileRows(u, tables)
             framework == IF rows = <<>> \/ rows[1].primary_framework = NoFramework
                          THEN "humanistic"
                          ELSE rows[1].primary_framework
         IN [immediate_steps |-> <<"Ensure your immediate safety",
                                   "Remove any means of self-harm from your environment",
                                   "Contact a crisis resource or trusted person">>,
             coping_strategies |-> IF framework \in DOMAIN copingStrategies
                                   THEN copingStrategies[framework]
                                   ELSE copingStrategies.humanistic,
             support_resources |-> CRISIS_RESOURCES,
             reminder |-> "This intense feeling will pass. You have survived difficult times before."]

\* Values of the primary_framework column: the modality ids, the framework
\* names the assessment routes and the client use, and no value.
Frameworks == Modalities \cup {"cognitive_behavioral", NoFramework}

NoRow == "no row"

ProfileRowOf(u, f) ==
    IF f = NoRow THEN <<>> ELSE << [user_id |-> u, primary_framework |-> f] >>

\* At most one profile row per user.
ProfileTables ==
    {ProfileRowOf("u1", f1) \o ProfileRowOf("u2", f2) :
        f1 \in Frameworks \cup {NoRow}, f2 \in Frameworks \cup {NoRow}}

InitPlan ==
    /\ userId \in Users
    /\ db \in [crisis_assessments : {<<>>},
               therapeutic_profiles : ProfileTables,
               up : BOOLEAN]
    /\ safetyPlan = NoResult
    /\ crisisResponse = NoResult
    /\ sessions = <<>>
    /\ message = <<>>
    /\ CrisisIdle
    /\ FlowIdle
    /\ InferIdle
    /\ EngineIdle
    /\ DialecticIdle
    /\ ResponseIdle

PlanFrame ==
    /\ UNCHANGED crisisVars
    /\ UNCHANGED flowVars
    /\ UNCHANGED inferVars
    /\ UNCHANGED <<isAvailable, runs, db, sessions, dialectic>>
    /\ UNCHANGED responseVars

GetPlan ==
    /\ safetyPlan = NoResult
    /\ safetyPlan' = getPersonalizedSafetyPlan(userId, db)
    /\ UNCHANGED crisisResponse
    /\ PlanFrame

GetCrisisResponse ==
    /\ crisisResponse = NoResult
    /\ crisisResponse' = getCrisisResponse
    /\ UNCHANGED safetyPlan
    /\ PlanFrame

NextPlan ==
    \/ GetPlan
    \/ GetCrisisResponse

SpecPlan == InitPlan /\ [][NextPlan]_vars

(***************************************************************************)
(* dialecticService.js: analyzeDialecticResponse.                          *)
(***************************************************************************)
MaxAnswerPhrases == 2   \* phrases per dialectic answer

\* responseLower.includes(w1) || responseLower.includes(w2) || ...
IncludesAny(text, words) == \E w \in words : includes(text, w)

EmptyAnalysis == [beliefs |-> <<>>, insights |-> <<>>, therapeuticIndicators |-> {}]

\* One "if (...) { beliefs.push; insights.push; indicators = true }" of the switch
Rule(analysis, fires, belief, insight, indicators) ==
    IF fires
    THEN [beliefs |-> Append(analysis.beliefs, belief),
          insights |-> IF insight = "" THEN analysis.insights
                       ELSE Append(analysis.insights, insight),
          therapeuticIndicators |-> analysis.therapeuticIndicators \cup indicators]
    ELSE analysis

\* The vulnerability case with "else if" for the second rule.
analyzeDialecticResponse_ElseIf(response, focusArea) ==
    LET responseLower == toLowerCase(response)
        challenging == IncludesAny(responseLower, {<<"difficult">>, <<"hard">>, <<"scary">>})
    IN IF focusArea = "vulnerability"
       THEN IF challenging
            THEN Rule(EmptyAnalysis, TRUE, "Vulnerability is challenging",
                      "May benefit from gradual trust-building", {})
            ELSE Rule(EmptyAnalysis,
                      IncludesAny(responseLower, {<<"natural">>, <<"easy">>, <<"comfortable">>}),
                      "High vulnerability comfort", "Ready for deeper therapeutic work", {})
       ELSE EmptyAnalysis

\* analyzeDialecticResponse(response, focusArea)
analyzeDialecticResponse(response, focusArea) ==
    LET responseLower == toLowerCase(response)
    IN CASE focusArea = "therapeutic_approach" ->
              LET a1 == Rule(EmptyAnalysis,
                             IncludesAny(responseLower, {<<"skill">>, <<"tool">>, <<"technique">>}),
                             "Skills-based learning preference", "", {"cbt"})
                  a2 == Rule(a1,
                             IncludesAny(responseLower,
                                 {<<"relationship">>, <<"understood">>, <<"accepted">>}),
                             "Relationship-focused healing", "", {"humanistic"})
              IN Rule(a2,
                      IncludesAny(responseLower, {<<"insight">>, <<"understand">>, <<"pattern">>}),
                      "Insight-oriented approach", "", {"psychodynamic"})
         [] focusArea = "vulnerability" ->
              LET a1 == Rule(EmptyAnalysis,
                             IncludesAny(responseLower, {<<"difficult">>, <<"hard">>, <<"scary">>}),
                             "Vulnerability is challenging",
                             "May benefit from gradual trust-building", {})
              IN Rule(a1,
                      IncludesAny(responseLower, {<<"natural">>, <<"easy">>, <<"comfortable">>}),
                      "High vulnerability comfort", "Ready for deeper therapeutic work", {})
         [] focusArea = "change_beliefs" ->
              LET a1 == Rule(EmptyAnalysis,
                             IncludesAny(responseLower, {<<"gradual">>, <<"slow">>, <<"time">>}),
                             "Gradual change believer",
                             "May prefer consistent, incremental approaches", {})
              IN Rule(a1,
                      IncludesAny(responseLower,
                          {<<"sudden">>, <<"breakthrough">>, <<"realize">>}),
                      "Breakthrough change believer",
                      "May respond well to insight-oriented work", {})
         [] focusArea = "self_efficacy" ->
              LET hasConfidence ==
                      IncludesAny(responseLower,
                          {<<"confident">>, <<"capable">>, <<"strong">>, <<"able">>})
                  hasDoubt ==
                      IncludesAny(responseLower,
                          {<<"overwhelmed">>, <<"helpless">>, <<"weak">>, <<"unable">>})
                  a1 == Rule(EmptyAnalysis, hasConfidence, "High self-efficacy",
                             "Strong foundation for self-directed work", {})
              IN Rule(a1, hasDoubt, "Low self-efficacy",
                      "May benefit from strength-building focus", {})
         [] focusArea = "meaning_making" ->
              LET a1 == Rule(EmptyAnalysis,
                             IncludesAny(responseLower, {<<"lesson">>, <<"growth">>, <<"purpose">>}),
                             "Growth-oriented meaning maker", "", {"humanistic", "existential"})
              IN Rule(a1,
                      IncludesAny(responseLower,
                          {<<"random">>, <<"unfair">>, <<"no", " ", "reason">>}),
                      "Struggles with meaning-making",
                      "May benefit from meaning-focused interventions", {})
         [] OTHER -> EmptyAnalysis

\* The five focus areas and a value outside of them.
FocusAreas == {"therapeutic_approach", "vulnerability", "change_beliefs",
               "self_efficacy", "meaning_making", "other"}

\* Phrases of the answers.
AnswerPhrases ==
    { <<"it", " ", "feels", " ", "very", " ", "difficult", " ", "and", " ", "scary",
        " ", "to", " ", "open", " ", "up">>,
      <<"Natural">>,
      <<"un", "comfortable">>,
      <<"hard", "ly">>,
      <<"skill">>,
      <<"time">> }

Answers == {JoinPhrases(ps) : ps \in SeqsUpTo(AnswerPhrases, MaxAnswerPhrases)}

InitDialectic ==
    /\ dialectic \in [focusArea : FocusAreas, answer : Answers, analysis : {NoResult}]
    /\ userId = "u1"
    /\ message = <<>>
    /\ CrisisIdle
    /\ FlowIdle
    /\ InferIdle
    /\ EngineIdle
    /\ SafetyIdle
    /\ ResponseIdle

\* processDialecticResponse: const beliefAnalysis = await
\* this.analyzeDialecticResponse(userResponse, focusArea)
Analyze ==
    /\ dialectic.analysis = NoResult
    /\ dialectic' = [dialectic EXCEPT
                        !.analysis = analyzeDialecticResponse(dialectic.answer,
                                                              dialectic.focusArea)]
    /\ UNCHANGED crisisVars
    /\ UNCHANGED flowVars
    /\ UNCHANGED inferVars
    /\ UNCHANGED <<isAvailable, runs, db, safetyPlan, crisisResponse, sessions>>
    /\ UNCHANGED responseVars

NextDialectic == Analyze

SpecDialectic == InitDialectic /\ [][NextDialectic]_vars

(***************************************************************************)
(* dialecticService.js and routes/dialectic.js: a question is posed by     *)
(* startTherapeuticDialectic, an answer is handled by POST /respond.  The  *)
(* service keeps no session; dialectic holds the last call and its result, *)
(* and "posed" remembers the focus area of the last question posed.        *)
(***************************************************************************)
\* What the two generation calls of a follow-up do: answer or throw.
GenerationOutcomes == [followUp : BOOLEAN, reflection : BOOLEAN]

FallbackFollowUp == "Thank you for sharing that. Your perspective gives me valuable insight into what might work best for you. How do you think this belief influences your approach to personal growth?"
FallbackReflection == "What would it mean for your healing journey if this belief shifted even slightly?"

\* The follow-up with a try block of its own around the reflection call.
generateDialecticFollowUp_OwnTryForReflection(generation) ==
    IF generation.followUp
    THEN [content |-> "generated follow-up",
          reflection |-> IF generation.reflection THEN "generated reflection"
                         ELSE FallbackReflection]
    ELSE [content |-> FallbackFollowUp, reflection |-> FallbackReflection]

\* generateDialecticFollowUp: one try block around both calls
generateDialecticFollowUp(generation) ==
    IF generation.followUp /\ generation.reflection
    THEN [content |-> "generated follow-up", reflection |-> "generated reflection"]
    ELSE [content |-> FallbackFollowUp, reflection |-> FallbackReflection]

\* Focus areas and identifiers a client sends with an answer.
RespondAreas == {"vulnerability", "other", ""}
DialecticIds == {Null, [id |-> "d1"]}
SessionAnswers ==
    { <<>>,
      <<"it", " ", "feels", " ", "very", " ", "difficult", " ", "and", " ", "scary",
        " ", "to", " ", "open", " ", "up">>,
      <<"Natural">> }

\* The handler producing an analysis only for the question that was posed.
ProcessDialectic_RequiresPosed ==
    /\ \E dialecticId \in DialecticIds, response \in SessionAnswers, focusArea \in RespondAreas,
          generation \in GenerationOutcomes :
          IF response = <<>> \/ focusArea = "" \/ Posed # focusArea
          THEN dialectic' = [call |-> "respond", posed |-> Posed, status |-> 400,
                             focusArea |-> focusArea, answer |-> response]
          ELSE LET analysis == analyzeDialecticResponse(response, focusArea)
                   followUp == generateDialecticFollowUp(generation)
               IN dialectic' =
                     [call |-> "respond",
                      posed |-> Posed,
                      status |-> 200,
                      focusArea |-> focusArea,
                      answer |-> response,
                      available |-> isAvailable,
                      requests |-> IF isAvailable /\ dialecticId # Null
                                   THEN <<"updateDialectic">> ELSE <<>>,
                      generation |-> generation,
                      analysis |-> analysis,
                      followUp |-> followUp.content,
                      reflection |-> followUp.reflection,
                      insights |-> analysis.insights]
    /\ UNCHANGED crisisVars
    /\ UNCHANGED flowVars
    /\ UNCHANGED inferVars
    /\ UNCHANGED <<isAvailable, runs, db, safetyPlan, crisisResponse, sessions>>
    /\ UNCHANGED responseVars

\* router.post('/respond'): validation, processDialecticResponse
\* (updateDialectic, analyzeDialecticResponse, generateDialecticFollowUp),
\* res.json
ProcessDialectic ==
    /\ \E dialecticId \in DialecticIds, response \in SessionAnswers, focusArea \in RespondAreas,
          generation \in GenerationOutcomes :
          IF response = <<>> \/ focusArea = ""
          THEN dialectic' = [call |-> "respond", posed |-> Posed, status |-> 400,
                             focusArea |-> focusArea, answer |-> response]
          ELSE LET analysis == analyzeDialecticResponse(response, focusArea)
                   followUp == generateDialecticFollowUp(generation)
               IN dialectic' =
                     [call |-> "respond",
                      posed |-> Posed,
                      status |-> 200,
                      focusArea |-> focusArea,
                      answer |-> response,
                      available |-> isAvailable,
                      requests |-> IF isAvailable /\ dialecticId # Null
                                   THEN <<"updateDialectic">> ELSE <<>>,
                      generation |-> generation,
                      analysis |-> analysis,
                      followUp |-> followUp.content,
                      reflection |-> followUp.reflection,
                      insights |-> analysis.insights]
    /\ UNCHANGED crisisVars
    /\ UNCHANGED flowVars
    /\ UNCHANGED inferVars
    /\ UNCHANGED <<isAvailable, runs, db, safetyPlan, crisisResponse, sessions>>
    /\ UNCHANGED responseVars

InitSession ==
    /\ dialectic = NoResult
    /\ userId = "u1"
    /\ message = <<>>
    /\ CrisisIdle
    /\ FlowIdle
    /\ InferIdle
    /\ EngineIdle
    /\ SafetyIdle
    /\ ResponseIdle

NextSession ==
    \/ CheckAvailability
    \/ StartDialectic
    \/ ProcessDialectic

SpecSession == InitSession /\ [][NextSession]_vars

(***************************************************************************)
(* Several users served at once: each user's client calls assessCrisisRisk *)
(* (which suspends at its query), saveAndEscalateCrisis and POST /message; *)
(* the crisis_assessments table is shared.                                 *)
(***************************************************************************)
ElevatedLevels == {"high", "critical"}

\* SELECT COUNT(*) FROM crisis_assessments WHERE risk_level IN ('high',
\* 'critical') AND assessment_timestamp > NOW() - INTERVAL '24 hours', without
\* the condition on user_id.
RecentCrisisCount_AnyUser(u, tables) ==
    Len(SelectSeq(tables.crisis_assessments,
                  LAMBDA row : row.recent /\ row.risk_level \in ElevatedLevels))

\* SELECT COUNT(*) FROM crisis_assessments WHERE user_id = $1 AND
\* assessment_timestamp > NOW() - INTERVAL '24 hours' AND risk_level IN
\* ('high', 'critical')
RecentCrisisCount(u, tables) ==
    Len(SelectSeq(tables.crisis_assessments,
                  LAMBDA row : /\ row.user_id = u
                               /\ row.recent
                               /\ row.risk_level \in ElevatedLevels))

\* What "await db.query(...)" yields in assessCrisisRisk: the count, or a
\* thrown error while the database is down.
CrisisLookup(u, tables) ==
    IF tables.up THEN [failed |-> FALSE, count |-> RecentCrisisCount(u, tables)]
    ELSE [failed |-> TRUE, count |-> 0]

\* saveAndEscalateCrisis: INSERT INTO crisis_assessments (the row's
\* timestamp is the time of the insert)
InsertCrisisAssessment(u, result, tables) ==
    [tables EXCEPT !.crisis_assessments =
        Append(@, [user_id |-> u, risk_level |-> result.riskLevel, recent |-> TRUE])]

\* POST /message for one request: validation, history, crisis check,
\* preferences, modality, generation, response.
HandleMessage(u, msg, avail, generationUp) ==
    LET history == getConversationHistory(u)
        crisis == analyzeCrisisIndicators(msg, history)
        preferences == inferTherapeuticPreferences(history, u, avail, NotAsked)
        chosen == selectTherapeuticModality(preferences)
        text == IF generationUp THEN <<"completion", chosen>>
                ELSE getModalityFallbackResponse(chosen)
    IN IF msg = <<>> \/ u = NoUser
       THEN [profile |-> NoResult, response |-> [status |-> 400]]
       ELSE IF crisis.crisis_indicators
       THEN [profile |-> NoResult, response |-> CrisisReply]
       ELSE [profile |-> preferences,
             response |-> [status |-> 200,
                           response |-> text,
                           therapeuticModality |-> chosen,
                           beliefConfidence |-> preferences.confidence]]

SessionMessages == { <<"today">>, <<"hopeless", "ness">>, <<"SUICIDE">> }

IdleSession ==
    [pc |-> "idle", message |-> <<>>, emotionalState |-> NoEmotion,
     lookup |-> NoResult, assessment |-> NoResult, escalated |-> "none",
     profile |-> NoResult, response |-> NoResult]

\* Rows the table holds when the users arrive.
SeedTables ==
    {<<>>} \cup { << [user_id |-> u, risk_level |-> l, recent |-> TRUE] >> :
                    u \in Users, l \in {"high", "moderate"} }

InitUsers ==
    /\ sessions = [u \in Users |-> IdleSession]
    /\ db \in [crisis_assessments : SeedTables,
               therapeutic_profiles : {<<>>},
               up : {TRUE}]
    /\ safetyPlan = NoResult
    /\ crisisResponse = NoResult
    /\ userId = NoUser
    /\ message = <<>>
    /\ CrisisIdle
    /\ pc = "idle"
    /\ crisisAnalysis = NoResult
    /\ openaiUp \in BOOLEAN
    /\ trace = <<>>
    /\ httpResponse = NoResult
    /\ modality = "none"
    /\ generated = "none"
    /\ InferIdle
    /\ EngineIdle
    /\ DialecticIdle
    /\ ResponseIdle

UsersFrame ==
    /\ UNCHANGED crisisVars
    /\ UNCHANGED flowVars
    /\ UNCHANGED inferVars
    /\ UNCHANGED <<isAvailable, runs, safetyPlan, crisisResponse, dialectic>>
    /\ UNCHANGED responseVars

\* assessCrisisRisk(userId, message, emotionalState) up to "await db.query"
BeginAssess(u) ==
    /\ sessions[u].pc = "idle"
    /\ \E msg \in SessionMessages :
          sessions' = [sessions EXCEPT ![u] =
                          [@ EXCEPT !.pc = "assessing", !.message = msg]]
    /\ UNCHANGED db
    /\ UsersFrame

\* The query runs and assessCrisisRisk resumes and returns.
CompleteAssess(u) ==
    /\ sessions[u].pc = "assessing"
    /\ LET lookup == CrisisLookup(u, db)
       IN sessions' = [sessions EXCEPT ![u] =
                          [@ EXCEPT !.pc = "assessed",
                                    !.lookup = lookup,
                                    !.assessment =
                                        assessCrisisRisk(sessions[u].message,
                                            sessions[u].emotionalState, lookup)]]
    /\ UNCHANGED db
    /\ UsersFrame

\* saveAndEscalateCrisis(userId, assessment): true after the inserts, false
\* when a query throws
SaveCrisis(u) ==
    /\ sessions[u].pc = "assessed"
    /\ IF db.up
       THEN /\ db' = InsertCrisisAssessment(u, sessions[u].assessment, db)
            /\ sessions' = [sessions EXCEPT ![u] =
                               [@ EXCEPT !.pc = "saved", !.escalated = "true"]]
       ELSE /\ UNCHANGED db
            /\ sessions' = [sessions EXCEPT ![u] =
                               [@ EXCEPT !.pc = "saved", !.escalated = "false"]]
    /\ UsersFrame

\* The user's message goes through POST /message.
PostMessage(u) ==
    /\ sessions[u].pc \in {"assessed", "saved"}
    /\ LET handled == HandleMessage(u, sessions[u].message, isAvailable, openaiUp)
       IN sessions' = [sessions EXCEPT ![u] =
                          [@ EXCEPT !.pc = "handled",
                                    !.profile = handled.profile,
                                    !.response = handled.response]]
    /\ UNCHANGED db
    /\ UsersFrame

\* 24 hours pass: no row is recent any more.
Expire ==
    /\ \E i \in 1..Len(db.crisis_assessments) : db.crisis_assessments[i].recent
    /\ db' = [db EXCEPT !.crisis_assessments =
                 [i \in 1..Len(@) |-> [@[i] EXCEPT !.recent = FALSE]]]
    /\ UNCHANGED sessions
    /\ UsersFrame

\* The database goes down or comes back.
Outage ==
    /\ db' = [db EXCEPT !.up = ~@]
    /\ UNCHANGED sessions
    /\ UsersFrame

NextUsers ==
    \/ \E u \in Users : BeginAssess(u)
    \/ \E u \in Users : CompleteAssess(u)
    \/ \E u \in Users : SaveCrisis(u)
    \/ \E u \in Users : PostMessage(u)
    \/ Expire
    \/ Outage

SpecUsers == InitUsers /\ [][NextUsers]_vars

(***************************************************************************)
(* Vocabulary of the claims about the crisis assessor.                     *)
(***************************************************************************)
\* Case folding as the claims understand it (independent of toLowerCase).
Folded(text) ==
    [i \in 1..Len(text) |->
        CASE text[i] = "SUICIDE" -> "suicide"
          [] text[i] = "I" -> "i"
          [] text[i] = "THOUGHT" -> "thought"
          [] text[i] = "Feel" -> "feel"
          [] text[i] = "Natural" -> "natural"
          [] OTHER -> text[i]]

Occurs(text, keyword) ==
    LET ft == Folded(text)
    IN \E i \in 1..Len(ft) :
          /\ i + Len(keyword) - 1 <= Len(ft)
          /\ \A j \in 1..Len(keyword) : ft[i + j - 1] = keyword[j]

\* The keywords of a list that occur in a text, each counted once.
Matched(list, text) == {i \in 1..Len(list) : Occurs(text, list[i])}

FactorSet(r) == {r.riskFactors[i] : i \in 1..Len(r.riskFactors)}

IntensityHit(es) == es # NoEmotion /\ es.intensity >= 9
EmotionHit(es) == es # NoEmotion /\ es.primary_emotion \in {"hopelessness", "despair"}
RecentHit(lookup) == ~lookup.failed /\ lookup.count > 0
Bit(b) == IF b THEN 1 ELSE 0

ThresholdLevel(score) ==
    CASE score >= 15 -> "critical"
      [] score >= 10 /\ score < 15 -> "high"
      [] score >= 5 /\ score < 10 -> "moderate"
      [] OTHER -> "low"

NoRecent == [failed |-> FALSE, count |-> 0]

\* C3: a message containing a high-risk keyword is never assessed as low,
\* whatever the emotional state and whatever the history lookup yields
\* (a failed lookup included).
C3_HighRiskKeywordNeverLow ==
    (Assessed /\ Matched(CRISIS_KEYWORDS.high_risk, message) # {})
        => assessment.riskLevel # "low"

C3_Witness ==
    /\ Assessed
    /\ Matched(CRISIS_KEYWORDS.high_risk, message) # {}
    /\ emotionalState = NoEmotion
    /\ crisisHistory.failed
    /\ assessment.riskLevel = "high"

\* C4 as stated: the returned riskLevel is the level the thresholds give for
\* the returned riskScore (>= 15 critical, 10..14 high, 5..9 moderate, < 5
\* low), for all inputs.
C4_LevelAgreesWithReturnedScore ==
    Assessed => assessment.riskLevel = ThresholdLevel(assessment.riskScore)

\* C4 (amended): the returned riskLevel is the level the thresholds give for
\* the score without the recent-incident contribution (the returned
\* riskScore, less 5 when recent_crisis_history is recorded), except that a
\* moderate level is reported as high when there is a recent incident.
C4_LevelAgreesWithScoreBeforeHistory ==
    Assessed =>
        LET recent == <<"recent_crisis_history">> \in FactorSet(assessment)
            before == assessment.riskScore - (IF recent THEN 5 ELSE 0)
        IN assessment.riskLevel =
              IF recent /\ ThresholdLevel(before) = "moderate" THEN "high"
              ELSE ThresholdLevel(before)

C4_Witness ==
    /\ Assessed
    /\ RecentHit(crisisHistory)
    /\ assessment.riskScore = 15
    /\ assessment.riskLevel = "high"
    /\ emotionalState # NoEmotion

\* C5: riskScore = 10h + 5m + 7s + 5[intensity >= 9] + 5[hopelessness or
\* despair] + 5[recent count > 0] with h, m, s the numbers of distinct
\* keywords occurring; riskFactors has exactly one label per contribution
\* and is empty exactly when the score is 0, and then the level is low;
\* "I want to end my life" with despair at 9 and no recent incident scores
\* 20, critical, with the three labels.
C5_ScoreFormula ==
    Assessed =>
        LET h == Cardinality(Matched(CRISIS_KEYWORDS.high_risk, message))
            m == Cardinality(Matched(CRISIS_KEYWORDS.moderate_risk, message))
            s == Cardinality(Matched(CRISIS_KEYWORDS.self_harm, message))
            e1 == Bit(IntensityHit(emotionalState))
            e2 == Bit(EmotionHit(emotionalState))
            rc == Bit(RecentHit(crisisHistory))
            labels ==
                {<<"high_risk_keyword", CRISIS_KEYWORDS.high_risk[i]>> :
                    i \in Matched(CRISIS_KEYWORDS.high_risk, message)}
                \cup {<<"moderate_risk_keyword", CRISIS_KEYWORDS.moderate_risk[i]>> :
                    i \in Matched(CRISIS_KEYWORDS.moderate_risk, message)}
                \cup {<<"self_harm_keyword", CRISIS_KEYWORDS.self_harm[i]>> :
                    i \in Matched(CRISIS_KEYWORDS.self_harm, message)}
                \cup (IF e1 = 1 THEN {<<"extreme_emotional_intensity">>} ELSE {})
                \cup (IF e2 = 1
                      THEN {<<"high_risk_emotion", emotionalState.primary_emotion>>}
                      ELSE {})
                \cup (IF rc = 1 THEN {<<"recent_crisis_history">>} ELSE {})
        IN /\ assessment.riskScore = 10 * h + 5 * m + 7 * s + 5 * e1 + 5 * e2 + 5 * rc
           /\ FactorSet(assessment) = labels
           /\ Len(assessment.riskFactors) = h + m + s + e1 + e2 + rc
           /\ (assessment.riskFactors = <<>>) <=> (assessment.riskScore = 0)
           /\ (assessment.riskScore = 0) => (assessment.riskLevel = "low")
           /\ ( /\ message = <<"I", " ", "want", " ", "to", " ", "end", " ", "my", " ", "life">>
                /\ emotionalState = [intensity |-> 9, primary_emotion |-> "despair"]
                /\ ~RecentHit(crisisHistory) )
              => /\ assessment.riskScore = 20
                 /\ assessment.riskLevel = "critical"
                 /\ FactorSet(assessment) =
                        { <<"high_risk_keyword", <<"end", " ", "my", " ", "life">> >>,
                          <<"extreme_emotional_intensity">>,
                          <<"high_risk_emotion", "despair">> }

C5_Witness ==
    /\ Assessed
    /\ message = <<"I", " ", "want", " ", "to", " ", "end", " ", "my", " ", "life">>
    /\ emotionalState = [intensity |-> 9, primary_emotion |-> "despair"]
    /\ crisisHistory = NoRecent
    /\ assessment.riskScore = 20

\* A repeated keyword counts once, and a keyword inside a longer word counts.
C5_WitnessRepeated ==
    /\ Assessed
    /\ message = <<"hopeless", "ness", " ", "hopeless", "ness">>
    /\ assessment.riskScore = 5

\* C6: against the same message and emotional state with no recent
\* incident, a recent count > 0 adds exactly 5 to the score, records
\* recent_crisis_history, lifts moderate to high and leaves every other
\* level as it was; a count of 0 has none of these effects.
C6_RecentIncidentEffect ==
    Assessed =>
        LET base == assessCrisisRisk(message, emotionalState,
                                     [failed |-> TRUE, count |-> 0])
        IN IF RecentHit(crisisHistory)
           THEN /\ assessment.riskScore = base.riskScore + 5
                /\ <<"recent_crisis_history">> \in FactorSet(assessment)
                /\ base.riskLevel = "moderate" => assessment.riskLevel = "high"
                /\ base.riskLevel # "moderate" => assessment.riskLevel = base.riskLevel
           ELSE ~crisisHistory.failed =>
                /\ assessment.riskScore = base.riskScore
                /\ <<"recent_crisis_history">> \notin FactorSet(assessment)
                /\ assessment.riskLevel = base.riskLevel

C6_WitnessPromoted ==
    /\ Assessed
    /\ RecentHit(crisisHistory)
    /\ assessment.riskScore = 10
    /\ assessment.riskLevel = "high"
    /\ Matched(CRISIS_KEYWORDS.high_risk, message) = {}

C6_WitnessUnchanged ==
    /\ Assessed
    /\ RecentHit(crisisHistory)
    /\ assessment.riskScore = 15
    /\ assessment.riskLevel = "high"
    /\ emotionalState = NoEmotion

\* C7: when the crisis-history lookup fails, the assessment fails toward
\* the safe branch, i.e. the risk is reported as elevated.
C7_LookupFailureFailsSafe ==
    (Assessed /\ crisisHistory.failed) => assessment.riskLevel \in {"high", "critical"}

\* The words of a text (String.split(' ')).
RECURSIVE Words(_, _)
Words(text, cur) ==
    IF text = <<>> THEN <<cur>>
    ELSE IF Head(text) = " " THEN <<cur>> \o Words(Tail(text), <<>>)
    ELSE Words(Tail(text), Append(cur, Head(text)))

Rotate(ws, k) == [i \in 1..Len(ws) |-> ws[((i + k - 1) % Len(ws)) + 1]]
Reordered(text) ==
    LET ws == Words(text, <<>>)
    IN {JoinPhrases(Rotate(ws, k)) : k \in 0..(Len(ws) - 1)}
       \cup {JoinPhrases([i \in 1..Len(ws) |-> ws[Len(ws) + 1 - i]])}

KeywordSet(text) ==
    <<Matched(CRISIS_KEYWORDS.high_risk, text),
      Matched(CRISIS_KEYWORDS.moderate_risk, text),
      Matched(CRISIS_KEYWORDS.self_harm, text)>>

\* Inputs that differ from the assessed one in the message (one more
\* phrase), in the emotional state or in the lookup.
Neighbours ==
    {<<JoinPhrases(<<message, p>>), emotionalState, crisisHistory>> : p \in CrisisPhrases}
    \cup {<<message, es, crisisHistory>> : es \in EmotionalStates}
    \cup {<<message, emotionalState, lk>> : lk \in Lookups}

\* C8: riskScore is monotone in the set of contributions (an input whose
\* contributions include those of the assessed input scores at least as
\* much) and does not depend on the order of the keywords in the message.
C8_ScoreMonotoneOrderIndependent ==
    Assessed =>
        /\ \A n \in Neighbours :
              LET other == assessCrisisRisk(n[1], n[2], n[3])
              IN /\ FactorSet(assessment) \subseteq FactorSet(other)
                    => assessment.riskScore <= other.riskScore
                 /\ FactorSet(other) \subseteq FactorSet(assessment)
                    => other.riskScore <= assessment.riskScore
        /\ \A m2 \in Reordered(message) :
              KeywordSet(m2) = KeywordSet(message)
                 => assessCrisisRisk(m2, emotionalState, crisisHistory).riskScore
                        = assessment.riskScore

C8_WitnessMonotone ==
    /\ Assessed
    /\ message = <<"SUICIDE">>
    /\ emotionalState = NoEmotion
    /\ assessment.riskScore = 10
    /\ assessCrisisRisk(<<"SUICIDE", " ", "cutting">>, emotionalState, crisisHistory).riskScore = 17

C8_WitnessReordered ==
    /\ Assessed
    /\ message = <<"cutting", " ", "SUICIDE">>
    /\ assessment.riskScore = 17
    /\ <<"SUICIDE", " ", "cutting">> \in Reordered(message)

(***************************************************************************)
(* Claims about the message-handling flow.                                 *)
(***************************************************************************)
InTrace(call) == \E i \in 1..Len(trace) : trace[i] = call

RoutingCalls ==
    {"inferTherapeuticPreferences", "selectTherapeuticModality",
     "openai.chat.completions.create"}

\* C1: a message whose scored assessment is high or critical gets the crisis
\* response, and neither modality selection nor the generation collaborator
\* runs for it.
C1_ElevatedRiskShortCircuits ==
    (userId # NoUser
     /\ assessCrisisRisk(message, NoEmotion, NoRecent).riskLevel \in {"high", "critical"})
        => /\ ~InTrace("selectTherapeuticModality")
           /\ ~InTrace("openai.chat.completions.create")
           /\ pc = "done" => httpResponse = CrisisReply

\* C2: within the handling of a message, every preference-inference,
\* modality-routing or generation call comes after that message's crisis
\* check has completed.
C2_CrisisCheckPrecedesRouting ==
    \A i \in 1..Len(trace) :
        trace[i] \in RoutingCalls
            => /\ \E j \in 1..(i - 1) : trace[j] = "analyzeCrisisIndicators"
               /\ crisisAnalysis # NoResult

C2_Witness ==
    /\ pc = "done"
    /\ InTrace("openai.chat.completions.create")
    /\ InTrace("analyzeCrisisIndicators")
    /\ httpResponse.status = 200

(***************************************************************************)
(* Claims about local preference inference.                                *)
(***************************************************************************)
\* Keyword hits of modality a over the user-authored messages, counted per
\* message and per keyword.
RECURSIVE UserHits(_, _)
UserHits(a, convs) ==
    IF convs = <<>> THEN 0
    ELSE (IF Head(convs).role = "user"
          THEN Cardinality(Matched(patterns[a], Head(convs).content))
          ELSE 0) + UserHits(a, Tail(convs))

HitsOf(convs) == [a \in Modalities |-> UserHits(a, convs)]

MaxOf(hits) ==
    CHOOSE n \in {hits[a] : a \in Modalities} : \A a \in Modalities : hits[a] <= n

LeadersOf(hits) == LET n == MaxOf(hits) IN {a \in Modalities : hits[a] = n}

PositionOf(a) == CHOOSE i \in 1..Len(ModalityOrder) : ModalityOrder[i] = a

UserOnly(convs) == SelectSeq(convs, LAMBDA c : c.role = "user")

\* C9 as stated: primaryModality is the modality with the unique maximum
\* counter; on a tie for the maximum, and when all counters are zero, it is
\* humanistic; messages of other roles change no counter.
C9_TiesResolveToHumanistic ==
    Inferred =>
        \A hits \in {HitsOf(conversations)} :
        \A leaders \in {LeadersOf(hits)} :
           /\ (Cardinality(leaders) = 1 /\ MaxOf(hits) > 0)
                 => profile.primaryModality \in leaders
           /\ (Cardinality(leaders) > 1 \/ MaxOf(hits) = 0)
                 => profile.primaryModality = "humanistic"
           /\ Indicators(conversations) = hits

\* C9 (amended): primaryModality is the modality with the maximum counter;
\* on a tie for a non-zero maximum it is the tied modality that comes first
\* in the order of the modality table; when all counters are zero it is
\* humanistic; messages of other roles change no counter.
C9_TiesResolveToFirstInTableOrder ==
    Inferred =>
        \A hits \in {HitsOf(conversations)} :
        \A leaders \in {LeadersOf(hits)} :
           /\ MaxOf(hits) > 0
                 => /\ profile.primaryModality \in leaders
                    /\ \A a \in leaders :
                           PositionOf(profile.primaryModality) <= PositionOf(a)
           /\ MaxOf(hits) = 0 => profile.primaryModality = "humanistic"
           /\ Indicators(conversations) = hits
           /\ profile = localInferTherapeuticPreferences(UserOnly(conversations))

C9_Witness ==
    /\ Inferred
    /\ conversations = << [role |-> "assistant", content |-> <<"Feel", "ing">>],
                          [role |-> "user", content |-> <<"accept">>] >>
    /\ LeadersOf(HitsOf(conversations))
          = {"mindfulness", "dialectical_behavioral", "acceptance_commitment"}
    /\ profile.primaryModality = "mindfulness"

ScenarioPhrase == <<"THOUGHT", " ", "evidence", " ", "practical">>

\* C10: confidence is 0.8 exactly when the winning modality's counter is
\* greater than 5 and 0.6 otherwise; a history whose user messages are all
\* "thought evidence practical" with at least 6 hits yields cbt and 0.8.
C10_ConfidenceFollowsWinningCounter ==
    Inferred =>
        \A won \in {UserHits(profile.primaryModality, conversations)} :
        /\ profile.confidence = "0.8" <=> won > 5
        /\ profile.confidence = "0.6" <=> won <= 5
        /\ ( /\ \A i \in 1..Len(conversations) :
                    conversations[i].role = "user" => conversations[i].content = ScenarioPhrase
             /\ UserHits("cbt", conversations) >= 6 )
              => /\ profile.primaryModality = "cbt"
                 /\ profile.confidence = "0.8"

C10_Witness ==
    /\ Inferred
    /\ Len(conversations) >= 3
    /\ \A i \in 1..Len(conversations) :
          conversations[i] = [role |-> "user", content |-> ScenarioPhrase]
    /\ UserHits("cbt", conversations) >= 6
    /\ profile.primaryModality = "cbt"
    /\ profile.confidence = "0.8"

\* Vulnerability-indicator hits over the user-authored messages.
RECURSIVE VulnerabilityHits(_)
VulnerabilityHits(convs) ==
    IF convs = <<>> THEN 0
    ELSE (IF Head(convs).role = "user"
          THEN Cardinality(Matched(vulnerabilityIndicators, Head(convs).content))
          ELSE 0) + VulnerabilityHits(Tail(convs))

\* C11: for the empty history, and for any history without a user-authored
\* message, local inference returns primaryModality humanistic, confidence
\* 0.6, vulnerabilityComfort 5 and changeBeliefs gradual.
C11_NoUserMessageGivesDefaults ==
    (Inferred /\ UserOnly(conversations) = <<>>)
        => /\ profile.primaryModality = "humanistic"
           /\ profile.confidence = "0.6"
           /\ profile.vulnerabilityComfort = 5
           /\ profile.changeBeliefs = "gradual"

C11_Witness ==
    /\ Inferred
    /\ conversations = << [role |-> "assistant", content |-> <<"Feel", "ing">>],
                          [role |-> "assistant", content |-> <<"Feel", "ing">>] >>
    /\ profile.primaryModality = "humanistic"
    /\ profile.vulnerabilityComfort = 5

C11_WitnessEmpty ==
    /\ Inferred
    /\ conversations = <<>>
    /\ profile.confidence = "0.6"
    /\ profile.changeBeliefs = "gradual"

\* C12: whatever the length of the history and the number of
\* vulnerability-indicator hits, vulnerabilityComfort is an integer from 5
\* to 10; it never exceeds 10.
C12_VulnerabilityComfortBounded ==
    Inferred => profile.vulnerabilityComfort \in 5..10

\* More than ten hits: 5 + 0.5 * hits would pass 10.
C12_Witness ==
    /\ Inferred
    /\ VulnerabilityHits(conversations) > 10
    /\ profile.vulnerabilityComfort = 10

\* The (directness, warmth, structure, pace) table of the specification.
StyleTable ==
    [cbt |-> <<8, 6, 9, 7>>,
     humanistic |-> <<4, 9, 3, 5>>,
     mindfulness |-> <<5, 7, 5, 3>>,
     psychodynamic |-> <<6, 7, 6, 4>>,
     existential |-> <<7, 6, 4, 5>>,
     somatic |-> <<5, 8, 5, 2>>,
     solution_focused |-> <<7, 7, 7, 8>>,
     dialectical_behavioral |-> <<6, 7, 8, 6>>,
     narrative |-> <<5, 8, 5, 4>>,
     acceptance_commitment |-> <<6, 7, 6, 5>>]

StyleTuple(st) == <<st.directness, st.warmth, st.structure, st.pace>>

\* C19: inferCommunicationStyle returns, for each of the ten modalities,
\* exactly the tuple of the fixed table; the communicationStyle of every
\* local profile is the entry of its primaryModality; every component lies
\* in 1..10.
C19_CommunicationStyleIsTableEntry ==
    Inferred =>
        /\ \A m \in Modalities :
              /\ StyleTuple(inferCommunicationStyle(m)) = StyleTable[m]
              /\ DOMAIN inferCommunicationStyle(m)
                    = {"directness", "warmth", "structure", "pace"}
              /\ \A f \in DOMAIN inferCommunicationStyle(m) :
                    inferCommunicationStyle(m)[f] \in 1..10
        /\ StyleTuple(profile.communicationStyle) = StyleTable[profile.primaryModality]

C19_Witness ==
    /\ Inferred
    /\ profile.primaryModality = "cbt"
    /\ StyleTuple(profile.communicationStyle) = <<8, 6, 9, 7>>

(***************************************************************************)
(* Claims about the engine in front of the belief store.                   *)
(***************************************************************************)
LocalRun(r) ==
    r.call = "inferTherapeuticPreferences" /\ r.result.source = "local_detection"

StoreFailed(r) ==
    \/ ~r.available
    \/ r.store.selfModel = "error"
    \/ r.store.track = "error"
    \/ r.store.beliefSystem.status = "error"

\* C14: when a belief-store call made during inference (ensure self-model,
\* submit statement, get aggregated preferences) fails or the store is
\* unavailable, inferTherapeuticPreferences returns the locally computed
\* profile for the given history.
C14_StoreFailureFallsBackToLocal ==
    \A i \in 1..Len(runs) :
        (runs[i].call = "inferTherapeuticPreferences" /\ StoreFailed(runs[i]))
            => /\ runs[i].result.source = "local_detection"
               /\ runs[i].result = localInferTherapeuticPreferences(runs[i].conversations)

(***************************************************************************)
(* Claims about response generation.                                       *)
(***************************************************************************)
\* C15: when the generation collaborator fails while a response is generated
\* under modality M, the content returned is M's own fallback sentence, for
\* each of cbt, humanistic, mindfulness, psychodynamic and existential.
C15_FallbackIsOwnSentence ==
    (pc = "respond" /\ ~openaiUp) => generated = <<"fallback", modality>>

(***************************************************************************)
(* Claims about the safety plan.                                           *)
(***************************************************************************)
\* The framework stored for the user, "humanistic" when none is stored.
StoredFramework ==
    LET mine == {i \in 1..Len(db.therapeutic_profiles) :
                    db.therapeutic_profiles[i].user_id = userId}
    IN IF mine = {} THEN "humanistic"
       ELSE LET f == db.therapeutic_profiles[CHOOSE i \in mine : TRUE].primary_framework
            IN IF f = "" THEN "humanistic" ELSE f

Planned == safetyPlan # NoResult

Contains(list, x) == \E i \in 1..Len(list) : list[i] = x

HumanisticList == <<"Self-compassion", "Connect with your values", "Reach out">>

\* C16 as stated: copingStrategies are the modality's own list for cbt,
\* humanistic, mindfulness and psychodynamic, and humanistic's list for every
\* other modality; the mindfulness list has a grounding and a breathing
\* technique.
C16_OwnListForTheFourModalities ==
    (Planned /\ db.up) =>
        safetyPlan.coping_strategies =
            CASE StoredFramework = "cbt" ->
                    <<"Challenge the thoughts", "Behavioral activation", "Problem-solving">>
              [] StoredFramework = "humanistic" -> HumanisticList
              [] StoredFramework = "mindfulness" ->
                    <<"Grounding", "Breathing", "Observe without judgment">>
              [] StoredFramework = "psychodynamic" ->
                    <<"Express emotions", "Identify patterns", "Seek understanding">>
              [] OTHER -> HumanisticList

\* C16 (amended): copingStrategies are the framework's own list when the
\* stored framework is cognitive_behavioral, humanistic, mindfulness or
\* psychodynamic, and humanistic's list for every other value, the modality
\* id cbt included; the mindfulness list has a grounding and a breathing
\* technique.
C16_OwnListForTheFourFrameworks ==
    (Planned /\ db.up) =>
        /\ safetyPlan.coping_strategies =
              CASE StoredFramework = "cognitive_behavioral" ->
                      <<"Challenge the thoughts", "Behavioral activation", "Problem-solving">>
                [] StoredFramework = "humanistic" -> HumanisticList
                [] StoredFramework = "mindfulness" ->
                      <<"Grounding", "Breathing", "Observe without judgment">>
                [] StoredFramework = "psychodynamic" ->
                      <<"Express emotions", "Identify patterns", "Seek understanding">>
                [] OTHER -> HumanisticList
        /\ StoredFramework = "mindfulness"
              => /\ Contains(safetyPlan.coping_strategies, "Grounding")
                 /\ Contains(safetyPlan.coping_strategies, "Breathing")
        /\ StoredFramework = "cbt" => safetyPlan.coping_strategies = HumanisticList

C16_Witness ==
    /\ Planned
    /\ db.up
    /\ StoredFramework = "mindfulness"
    /\ safetyPlan.coping_strategies[1] = "Grounding"
    /\ Len(safetyPlan.support_resources) = 3

C16_WitnessCbt ==
    /\ Planned
    /\ db.up
    /\ StoredFramework = "cbt"
    /\ safetyPlan.coping_strategies = HumanisticList

CanonicalResources == <<"Crisis Text Line", "National Suicide Prevention Lifeline",
                        "Emergency Services">>

ResourceNames(rs) == [i \in 1..Len(rs) |-> rs[i].name]

SuccessfulSteps == <<"Ensure your immediate safety",
                     "Remove any means of self-harm from your environment",
                     "Contact a crisis resource or trusted person">>

\* C17 as stated: when the profile lookup errors the plan returned has
\* humanistic's copingStrategies and the immediateSteps and supportResources
\* of the successful path; on every path, and in every crisis response,
\* supportResources is the same ordered list of the 3 canonical resources.
C17_DefaultPlanIsHumanisticBased ==
    /\ Planned =>
          /\ ResourceNames(safetyPlan.support_resources) = CanonicalResources
          /\ safetyPlan.immediate_steps = SuccessfulSteps
          /\ ~db.up => safetyPlan.coping_strategies = HumanisticList
    /\ crisisResponse # NoResult =>
          ResourceNames(crisisResponse.resources) = CanonicalResources

\* C17 (amended): when the profile lookup errors the plan returned is the
\* default plan, with its own fixed copingStrategies (deep breaths, a safe
\* place, grounding techniques) and its own fixed immediateSteps; on every
\* path, and in every crisis response, supportResources is the same ordered
\* list of the 3 canonical resources, and immediateSteps begins with
\* ensuring immediate safety.
C17_DefaultPlanHasItsOwnLists ==
    /\ Planned =>
          /\ ResourceNames(safetyPlan.support_resources) = CanonicalResources
          /\ safetyPlan.immediate_steps[1] = "Ensure your immediate safety"
          /\ db.up => safetyPlan.immediate_steps = SuccessfulSteps
          /\ ~db.up =>
                /\ safetyPlan.coping_strategies =
                      <<"Take deep breaths", "Go to a safe place", "Use grounding techniques">>
                /\ safetyPlan.immediate_steps =
                      <<"Ensure your immediate safety", "Contact a crisis resource",
                        "Reach out to someone you trust">>
    /\ crisisResponse # NoResult =>
          /\ ResourceNames(crisisResponse.resources) = CanonicalResources
          /\ crisisResponse.followUpRequired

C17_Witness ==
    /\ Planned
    /\ ~db.up
    /\ safetyPlan.coping_strategies[1] = "Take deep breaths"
    /\ crisisResponse # NoResult
    /\ Len(crisisResponse.resources) = 3

(***************************************************************************)
(* Claims about the dialectic analysis.                                    *)
(***************************************************************************)
Analyzed == dialectic # NoResult /\ dialectic.analysis # NoResult

Tags(list) == {list[i] : i \in 1..Len(list)}

ScenarioAnswer ==
    <<"it", " ", "feels", " ", "very", " ", "difficult", " ", "and", " ", "scary",
      " ", "to", " ", "open", " ", "up">>

\* C18: under focusArea vulnerability the analysis has the tag "Vulnerability
\* is challenging" and the gradual trust-building insight exactly when the
\* answer contains difficult, hard or scary (in any letter case), and the tag
\* "High vulnerability comfort" and the ready-for-deeper-work insight exactly
\* when it contains natural, easy or comfortable; each rule fires on its own,
\* and no rule of another focusArea adds a tag.
C18_VulnerabilityRules ==
    (Analyzed /\ dialectic.focusArea = "vulnerability") =>
        LET answer == dialectic.answer
            analysis == dialectic.analysis
            challenging == \/ Occurs(answer, <<"difficult">>)
                           \/ Occurs(answer, <<"hard">>)
                           \/ Occurs(answer, <<"scary">>)
            comfort == \/ Occurs(answer, <<"natural">>)
                       \/ Occurs(answer, <<"easy">>)
                       \/ Occurs(answer, <<"comfortable">>)
        IN /\ Tags(analysis.beliefs) =
                 (IF challenging THEN {"Vulnerability is challenging"} ELSE {})
                 \cup (IF comfort THEN {"High vulnerability comfort"} ELSE {})
           /\ Tags(analysis.insights) =
                 (IF challenging THEN {"May benefit from gradual trust-building"} ELSE {})
                 \cup (IF comfort THEN {"Ready for deeper therapeutic work"} ELSE {})
           /\ Len(analysis.beliefs) = Cardinality(Tags(analysis.beliefs))
           /\ analysis.therapeuticIndicators = {}
           /\ answer = ScenarioAnswer =>
                 /\ analysis.beliefs = <<"Vulnerability is challenging">>
                 /\ analysis.insights = <<"May benefit from gradual trust-building">>

C18_Witness ==
    /\ Analyzed
    /\ dialectic.focusArea = "vulnerability"
    /\ dialectic.answer = ScenarioAnswer
    /\ dialectic.analysis.beliefs = <<"Vulnerability is challenging">>

\* Both rules fire, and a keyword of another focus area is ignored.
C18_WitnessBoth ==
    /\ Analyzed
    /\ dialectic.focusArea = "vulnerability"
    /\ dialectic.answer = <<"Natural", " ", "hard", "ly">>
    /\ Len(dialectic.analysis.beliefs) = 2

(***************************************************************************)
(* Claims about users served at once.                                      *)
(***************************************************************************)
\* The tables with the rows of every user but u removed.
WithoutOthers(u, tables) ==
    [tables EXCEPT !.crisis_assessments = SelectSeq(@, LAMBDA row : row.user_id = u)]

\* C20: processing for different users is independent under any
\* interleaving. A step taken for one user leaves every other user's session
\* and every other user's rows as they were, and what is computed for a user
\* (the crisis assessment, the profile and the response) is what would be
\* computed from that user's own message and rows with all other users' rows
\* absent.
C20_UsersIndependent ==
    [][\A u \in Users :
         /\ sessions'[u] # sessions[u] =>
               \A v \in Users \ {u} :
                  /\ sessions'[v] = sessions[v]
                  /\ WithoutOthers(v, db').crisis_assessments
                        = WithoutOthers(v, db).crisis_assessments
         /\ (sessions[u].pc = "assessing" /\ sessions'[u].pc = "assessed") =>
               sessions'[u].assessment =
                   assessCrisisRisk(sessions[u].message, sessions[u].emotionalState,
                                    CrisisLookup(u, WithoutOthers(u, db)))
         /\ sessions'[u].pc = "handled" =>
               LET alone == HandleMessage(u, sessions'[u].message, isAvailable, openaiUp)
               IN /\ sessions'[u].profile = alone.profile
                  /\ sessions'[u].response = alone.response
      ]_vars

\* u1 is assessed while a recent high-risk row of u2 is in the table and u2
\* is being served: u1's assessment shows no recent incident.
C20_Witness ==
    /\ sessions # <<>>
    /\ sessions["u1"].pc = "handled"
    /\ sessions["u1"].message = <<"hopeless", "ness">>
    /\ sessions["u1"].lookup = [failed |-> FALSE, count |-> 0]
    /\ sessions["u1"].assessment.riskLevel = "moderate"
    /\ sessions["u2"].pc = "saved"
    /\ Len(db.crisis_assessments) = 2
    /\ db.crisis_assessments[1] = [user_id |-> "u2", risk_level |-> "high", recent |-> TRUE]
    /\ db.crisis_assessments[2].user_id = "u2"

(***************************************************************************)
(* Routing by inferred modality.                                           *)
(***************************************************************************)
\* C21: the response is generated and labelled with the configuration keyed
\* by the inferred profile's primaryModality whenever the table has that key,
\* and with the humanistic configuration only otherwise.
C21_RoutedByPrimaryModality ==
    pc = "returned" =>
        /\ modality = (IF profile.primaryModality \in DOMAIN therapeuticModalities
                       THEN profile.primaryModality ELSE "humanistic")
        /\ httpResponse.therapeuticModality = modality
        /\ systemPrompt[1] = therapeuticModalities[modality].systemPrompt

(***************************************************************************)
(* Instructions handed to the generation collaborator.                     *)
(***************************************************************************)
Clauses(prompt) == {prompt[i] : i \in 1..Len(prompt)}

\* The generation request has been issued.
Requested == systemPrompt # <<>>

\* The two context-specific paragraphs; either is taken for the safety clause.
SafetyClauses == {CrisisClause, VulnerabilityClause}

\* C22: every generation request issued by the message-handling flow for a
\* message whose caller-supplied context flags crisis indicators, or whose
\* vulnerability is high (level "high", comfort score 7 or more), carries the
\* mandatory safety clause in its instructions.
C22_SafetyClauseWhenFlagged ==
    (/\ Requested
     /\ \/ context.crisis_indicators
        \/ context.vulnerability_level = "high"
        \/ profile.vulnerabilityComfort >= 7)
        => Clauses(systemPrompt) \cap SafetyClauses # {}

(***************************************************************************)
(* Requests to the belief store during one inference.                      *)
(***************************************************************************)
\* A run that went to the belief store.
StoreRun(r) == r.available /\ r.userId # NoUser

\* Contents of the user-authored messages of the history from position p on.
RECURSIVE AuthoredFrom(_, _)
AuthoredFrom(convs, p) ==
    IF p > Len(convs) THEN <<>>
    ELSE (IF convs[p].role = "user" THEN <<convs[p].content>> ELSE <<>>)
         \o AuthoredFrom(convs, p + 1)

\* The last n elements of a sequence.
RECURSIVE Last(_, _)
Last(xs, n) == IF Len(xs) <= n THEN xs ELSE Last(Tail(xs), n)

Submitted(r) ==
    [i \in 1..(Len(r.requests) - 2) |-> r.requests[i + 1].content]

OrderedRequests(r) ==
    /\ Len(r.requests) >= 2
    /\ r.requests[1].request = "ensureUserSelfModel"
    /\ r.requests[Len(r.requests)].request = "getTherapeuticPreferences"
    /\ \A i \in 2..(Len(r.requests) - 1) :
          r.requests[i].request = "trackBeliefFromConversation"

\* The profile extracted from the store's belief system ("practical", "open").
ProfileOfStore(r) ==
    r.store.beliefSystem.status = "ok" =>
        /\ r.result.source = "epistemic_me"
        /\ r.result.primaryModality = "cbt"

\* C23 as stated: an inference that goes to the store ensures the self-model,
\* then submits exactly the last 5 user-authored messages of the history in
\* history order, then requests the aggregated preferences, and on success
\* returns the store's profile tagged with the external source.
C23_SubmitsLastFiveUserMessages ==
    \A i \in 1..Len(InferenceRuns) :
        LET r == InferenceRuns[i]
        IN StoreRun(r) =>
              /\ OrderedRequests(r)
              /\ Submitted(r) = Last(AuthoredFrom(r.conversations, 1), 5)
              /\ ProfileOfStore(r)

\* C23 amended: the messages submitted are the user-authored ones among the
\* last 5 messages of the history, in history order; the self-model request
\* comes first and the preferences request last, and on success the store's
\* profile is returned tagged epistemic_me.
C23_SubmitsUserMessagesOfLastFive ==
    \A i \in 1..Len(InferenceRuns) :
        LET r == InferenceRuns[i]
            from == IF Len(r.conversations) > 5 THEN Len(r.conversations) - 4 ELSE 1
        IN /\ StoreRun(r) =>
                 /\ OrderedRequests(r)
                 /\ Submitted(r) = AuthoredFrom(r.conversations, from)
                 /\ ProfileOfStore(r)
           /\ ~StoreRun(r) => r.requests = <<>>

\* A run on the long history went to the store and got the store's profile.
C23_Witness ==
    \E i \in 1..Len(InferenceRuns) :
        LET r == InferenceRuns[i]
        IN /\ StoreRun(r)
           /\ Len(r.conversations) > 5
           /\ Len(r.requests) = 4
           /\ r.store.beliefSystem.status = "ok"
           /\ r.result.source = "epistemic_me"

\* C24: the instructions built for a profile begin with the modality's base
\* fragment and carry the non-directive clause exactly when the profile's
\* directness is 4 or less, the direct clause exactly when it is 7 or more
\* (never both), the high-warmth clause exactly when warmth is 9 or more and
\* the contemplative-pacing clause exactly when pace is 3 or less.
C24_ClausesFollowStyleThresholds ==
    (Requested /\ profile # NoResult) =>
        LET style == profile.communicationStyle
            clauses == Clauses(systemPrompt)
        IN /\ systemPrompt[1] = therapeuticModalities[modality].systemPrompt
           /\ NonDirectiveClause \in clauses <=> style.directness <= 4
           /\ DirectClause \in clauses <=> style.directness >= 7
           /\ ~(NonDirectiveClause \in clauses /\ DirectClause \in clauses)
           /\ WarmthClause \in clauses <=> style.warmth >= 9
           /\ SlowPaceClause \in clauses <=> style.pace <= 3

(***************************************************************************)
(* Vulnerability comfort as a function of the history.                     *)
(***************************************************************************)
\* Number of user-authored messages that contain at least one indicator.
RECURSIVE VulnerableMessages(_)
VulnerableMessages(convs) ==
    IF convs = <<>> THEN 0
    ELSE (IF /\ Head(convs).role = "user"
             /\ Matched(vulnerabilityIndicators, Head(convs).content) # {}
          THEN 1 ELSE 0) + VulnerableMessages(Tail(convs))

\* round(min(10, 5 + 0.5 * k)), halves rounding up
ComfortOf(k) == IF k >= 10 THEN 10 ELSE (10 + k + 1) \div 2

\* C25 as stated: vulnerabilityComfort is round(min(10, 5 + 0.5 k)) with k the
\* number of user-authored messages that contain at least one indicator; one
\* message raises the score by 0.5 however many indicators it contains.
C25_HalfPointPerMessage ==
    Inferred => profile.vulnerabilityComfort = ComfortOf(VulnerableMessages(conversations))

\* C25 amended: vulnerabilityComfort is round(min(10, 5 + 0.5 h)) with h the
\* number of indicator keywords found, summed over the user-authored
\* messages; one message with n indicators raises the score by 0.5 n.
C25_HalfPointPerIndicatorHit ==
    Inferred => profile.vulnerabilityComfort = ComfortOf(VulnerabilityHits(conversations))

\* One user message with five indicators: 5 + 2.5, reported as 8.
C25_Witness ==
    /\ Inferred
    /\ Len(conversations) = 1
    /\ VulnerableMessages(conversations) = 1
    /\ VulnerabilityHits(conversations) = 5
    /\ profile.vulnerabilityComfort = 8

(***************************************************************************)
(* Lexical adaptation of the generated text.                               *)
(***************************************************************************)
\* The style applied softens, or makes direct, and inserts no warm phrase.
Softens(st) == st # Undefined /\ st.directness = "low" /\ st.warmth # "very_high"
MakesDirect(st) == st # Undefined /\ st.directness = "high" /\ st.warmth # "very_high"

\* C26 as stated: making direct undoes softening; a text softened and then
\* made direct is the original text.
C26_DirectUndoesSoften ==
    (Len(trace) = 2 /\ Softens(trace[1]) /\ MakesDirect(trace[2]))
        => adapted = generated

\* What softening followed by making direct turns each phrase into.
SoftenedThenDirect ==
    [p \in {"You should", "You need to", "I recommend", "Try this"} |->
        CASE p = "You should" -> "I recommend"
          [] p = "You need to" -> "You should"
          [] p = "I recommend" -> "I suggest"
          [] p = "Try this" -> "Try this"]

\* C26 amended: softening and then making direct returns the text with
\* "You should" turned into "I recommend", "You need to" into "You should"
\* and "I recommend" into "I suggest"; only "Try this" comes back as it was.
C26_DirectAfterSoftenShiftsPhrases ==
    (Len(trace) = 2 /\ Softens(trace[1]) /\ MakesDirect(trace[2]))
        => /\ Len(adapted) = Len(generated)
           /\ \A i \in 1..Len(generated) :
                 adapted[i] = IF generated[i] \in DOMAIN SoftenedThenDirect
                              THEN SoftenedThenDirect[generated[i]]
                              ELSE generated[i]

\* "You should rest. Try this" softened and made direct.
C26_Witness ==
    /\ Len(trace) = 2 /\ Softens(trace[1]) /\ MakesDirect(trace[2])
    /\ generated = <<"You should", " rest", ". ", "Try this">>
    /\ adapted = <<"I recommend", " rest", ". ", "Try this">>

\* The style applied inserts a warm phrase (and softens).
Warms(st) == st # Undefined /\ st.warmth = "very_high" /\ st.directness = "low"

SoftForm ==
    [p \in {"You should", "You need to", "I recommend", "Try this"} |->
        CASE p = "You should" -> "You might consider"
          [] p = "You need to" -> "It could be helpful to"
          [] p = "I recommend" -> "I wonder if"
          [] p = "Try this" -> "Perhaps you could explore"]

Softened(text) ==
    [i \in DOMAIN text |-> IF text[i] \in DOMAIN SoftForm THEN SoftForm[text[i]] ELSE text[i]]

WarmSet == {warmPhrases[k] : k \in 1..Len(warmPhrases)}
HasWarmPhrase(text) == \E phrase \in WarmSet : Occurs(text, phrase)
HasMarker(text) == \E i \in 1..Len(text) : text[i] \in {"I hear you", "That sounds"}
SeveralSentences(text) == \E i \in 1..Len(text) : text[i] = ". "

\* The text with the phrase put in as a sentence after the first sentence.
AfterFirstSentence(text, phrase) ==
    LET first == CHOOSE i \in 1..Len(text) :
                    text[i] = ". " /\ \A j \in 1..(i - 1) : text[j] # ". "
    IN    [i \in 1..first |-> text[i]]
       \o phrase \o <<". ">>
       \o [i \in 1..(Len(text) - first) |-> text[first + i]]

\* C27 as stated: under the warm style a text of two or more sentences with
\* no phrase of the warm-phrase set gets exactly one phrase of the set as a
\* sentence after its first sentence, every other text is returned as it is,
\* and a second application changes nothing more.
C27_WarmPhraseInsertedOnce ==
    (Len(trace) >= 1 /\ \A i \in 1..Len(trace) : Warms(trace[i])) =>
        LET text == Softened(generated)
        IN IF ~HasWarmPhrase(text) /\ SeveralSentences(text)
           THEN \E phrase \in WarmSet : adapted = AfterFirstSentence(text, phrase)
           ELSE adapted = text

\* The outcomes of one application, the guard being the two markers.
WarmedOnce(text) ==
    IF ~HasMarker(text) /\ SeveralSentences(text)
    THEN {AfterFirstSentence(text, phrase) : phrase \in WarmSet}
    ELSE {text}

\* C27 amended: the phrase is inserted exactly when the text holds neither
\* "I hear you" nor "That sounds" and has two or more sentences; a text that
\* holds one of the other three warm phrases still gets a phrase, so the
\* second application inserts again unless the first one inserted a marker.
C27_WarmPhraseInsertedUnlessMarker ==
    /\ (Len(trace) = 1 /\ Warms(trace[1]))
          => adapted \in WarmedOnce(Softened(generated))
    /\ (Len(trace) = 2 /\ Warms(trace[1]) /\ Warms(trace[2]))
          => \E once \in WarmedOnce(Softened(generated)) : adapted \in WarmedOnce(once)

\* One application on a text without warm phrase.
C27_Witness ==
    /\ Len(trace) = 1 /\ Warms(trace[1])
    /\ generated = <<"Take a breath", ". ", "Try this">>
    /\ adapted = <<"Take a breath", ". ", "I'm here with you", ". ",
                   "Perhaps you could explore">>

\* Two applications, two phrases.
C27_WitnessTwice ==
    /\ Len(trace) = 2 /\ Warms(trace[1]) /\ Warms(trace[2])
    /\ generated = <<"Take a breath", ". ", "Try this">>
    /\ Len(adapted) = 7

(***************************************************************************)
(* Dialectic follow-up and sessions.                                       *)
(***************************************************************************)
Responded == dialectic # NoResult /\ dialectic.call = "respond" /\ dialectic.status = 200

\* C28: when the follow-up call or the reflection call fails, the answer is
\* still processed without error: the keyword analysis is returned with the
\* fallback follow-up and the fallback reflection; a generated follow-up
\* never comes with the fallback reflection.
C28_FollowUpFailureGivesBothFallbacks ==
    /\ (dialectic # NoResult /\ dialectic.call = "respond" /\ dialectic.status # 200)
          => (dialectic.status = 400)
    /\ Responded =>
          /\ (~dialectic.generation.followUp \/ ~dialectic.generation.reflection)
                => /\ dialectic.followUp = FallbackFollowUp
                   /\ dialectic.reflection = FallbackReflection
                   /\ dialectic.analysis =
                         analyzeDialecticResponse(dialectic.answer, dialectic.focusArea)
                   /\ dialectic.insights = dialectic.analysis.insights
          /\ dialectic.followUp = FallbackFollowUp
                <=> dialectic.reflection = FallbackReflection

\* The follow-up was generated, the reflection call failed.
C28_Witness ==
    /\ Responded
    /\ dialectic.generation = [followUp |-> TRUE, reflection |-> FALSE]
    /\ dialectic.followUp = FallbackFollowUp
    /\ dialectic.analysis.beliefs = <<"Vulnerability is challenging">>

FiveAreas == {"therapeutic_approach", "vulnerability", "change_beliefs",
              "self_efficacy", "meaning_making"}

\* C29 as stated: an analysis is produced only for a session whose question
\* was posed before for the same focus area, one of the five, and whose
\* answer is recorded; never for a session that was not posed or for a focus
\* area outside the five.
C29_AnalysisOnlyAfterPosed ==
    Responded =>
        /\ dialectic.posed = dialectic.focusArea
        /\ dialectic.focusArea \in FiveAreas
        /\ dialectic.answer # <<>>

\* C29 amended: an answer is analysed whenever the request carries a
\* non-empty response and a non-empty focus area, whether or not a question
\* was posed for that area; outside the five areas the analysis has no
\* beliefs and no insights.  The question posed is the one of the focus area.
C29_AnalysisForAnyAnswer ==
    /\ (dialectic # NoResult /\ dialectic.call = "respond") =>
          /\ dialectic.status = 200
                <=> (dialectic.answer # <<>> /\ dialectic.focusArea # "")
          /\ (dialectic.status = 200 /\ dialectic.focusArea \notin FiveAreas)
                => /\ dialectic.analysis.beliefs = <<>>
                   /\ dialectic.analysis.insights = <<>>
    /\ (dialectic # NoResult /\ dialectic.call = "startTherapeuticDialectic") =>
          dialectic.question =
              IF dialectic.focusArea \in FiveAreas
              THEN dialecticPrompts[dialectic.focusArea]
              ELSE dialecticPrompts.therapeutic_approach

\* An answer analysed although no question was ever posed.
C29_Witness ==
    /\ Responded
    /\ dialectic.posed = "none"
    /\ dialectic.focusArea = "vulnerability"
    /\ dialectic.analysis.beliefs = <<"Vulnerability is challenging">>

\* An answer for an area outside the five, after a question for another area.
C29_WitnessOther ==
    /\ Responded
    /\ dialectic.posed = "vulnerability"
    /\ dialectic.focusArea = "other"
    /\ dialectic.analysis.beliefs = <<>>

(***************************************************************************)
(* The availability flag of the belief store.                              *)
(***************************************************************************)
HealthChecks == {i \in 1..Len(runs) : runs[i].call = "checkAvailability"}
Checked == HealthChecks # {}

\* C30: the flag is false until the one health check started at construction
\* completes and is the outcome of that check ever after; an inference or a
\* dialectic call made before the check completes takes the local path and
\* sends the belief store nothing, whatever the check will find; with the
\* flag false every belief-store method returns null.
C30_FlagSetOnceByHealthCheck ==
    /\ Cardinality(HealthChecks) <= 1
    /\ isAvailable = (\E i \in HealthChecks : runs[i].result)
    /\ \A i \in 1..Len(runs) :
          (runs[i].call = "inferTherapeuticPreferences"
           /\ \A j \in HealthChecks : i < j)
              => /\ ~runs[i].available
                 /\ runs[i].requests = <<>>
                 /\ runs[i].store = NotAsked
                 /\ runs[i].result.source = "local_detection"
    /\ (dialectic # NoResult /\ (~Checked \/ ~dialectic.available))
          => /\ ~dialectic.available
             /\ dialectic.requests = <<>>
             /\ dialectic.dialecticId = Null
             /\ dialectic.source = "local"
    /\ \A store \in StoreOutcomes :
          /\ ensureUserSelfModel(FALSE, store) = Null
          /\ trackBeliefFromConversation(FALSE, store) = Null
          /\ getUserBeliefSystem(FALSE, store) = Null
          /\ getTherapeuticPreferences(FALSE, store) = Null
    /\ \A outcome \in {"ok", "error"} :
          /\ createTherapeuticDialectic(FALSE, outcome) = Null
          /\ updateDialectic(FALSE, outcome) = Null

\* An inference and a question before the check completes, both local; the
\* check then finds the store up and the next inference goes to the store.
C30_Witness ==
    /\ Len(runs) = 3
    /\ runs[1].call = "inferTherapeuticPreferences"
    /\ runs[1].userId = "u1" /\ runs[1].requests = <<>>
    /\ runs[2].call = "checkAvailability" /\ runs[2].result
    /\ runs[3].call = "inferTherapeuticPreferences"
    /\ runs[3].requests # <<>>
    /\ isAvailable
    /\ dialectic # NoResult
    /\ dialectic.source = "local"

=============================================================================
